---- MODULE Spec2Model ----
(***************************************************************************)
(* A model of the PDB class of vs_utils/utils/nnscore_pdb.py: the loader   *)
(* of atoms and bonds, the ring search and aromaticity filter, the charge  *)
(* rules for ligands and residues, and the secondary-structure labelling.  *)
(*                                                                         *)
(* Conventions.                                                            *)
(*  - all_atoms is the dict {1..n -> Atom}; it is a sequence here, and a   *)
(*    loop over the dict visits the keys in increasing (load) order.       *)
(*  - A residue name is a sequence of one-character strings, so that the   *)
(*    code's slices (residue[-3:]) and substring tests can be computed.    *)
(*  - Coordinates are integer triples.  A point computed by average_point  *)
(*    is kept as [num, den]: the sum of the points and their number.       *)
(*  - Angles are integers, in degrees.  The geometry primitives dihedral   *)
(*    and angle_between_three_points live in nnscore_utils, which is not   *)
(*    among the sources: each atom carries the angle they return (tors,    *)
(*    ang) as part of the input.                                           *)
(*  - An exception ends load_from_files: err names it, and pc stays at the *)
(*    method that raised.                                                  *)
(***************************************************************************)
EXTENDS Integers, Sequences, FiniteSets, TLC

\* A value that several later steps read is bound as the member of a
\* one-element set (CHOOSE r \in {f(x) : x \in {e}} : TRUE), so that it is
\* computed once.

VARIABLES
  pdbqt,                 \* input: the ATOM/HETATM lines of the PDBQT file, parsed
  conect,                \* input: the CONECT lines of the PDB file, parsed
  all_atoms,             \* self.all_atoms
  non_protein_atoms,     \* keys of self.non_protein_atoms
  aromatic_rings,        \* self.aromatic_rings
  charges,               \* self.charges
  pc,                    \* the method load_from_files calls next
  err,                   \* "none", or the exception that ended the run
  rings_found,           \* the rings the cycle search recorded (last run)
  rings_kept,            \* what remove_redundant_rings returned (last run)
  ring_is_flat_calls,    \* arguments of the calls of ring_is_flat, in order
  get_aromatic_marker_calls, \* arguments of the calls of get_aromatic_marker
  structure_trace,       \* the atoms' labels after each set_structure_of_residue
  residue_charge_runs,   \* what each run of the residue charge detectors returned
  sweep_trace            \* one record per sweep of the two clean-up loops

vars == <<pdbqt, conect, all_atoms, non_protein_atoms, aromatic_rings, charges,
          pc, err, rings_found, rings_kept, ring_is_flat_calls,
          get_aromatic_marker_calls, structure_trace, residue_charge_runs,
          sweep_trace>>

----------------------------------------------------------------------------
(* Sequences *)

ToSet(s) == {s[i] : i \in DOMAIN s}

Contains(s, x) == \E i \in DOMAIN s : s[i] = x

RECURSIVE Concat(_)
Concat(ss) == IF ss = <<>> THEN <<>> ELSE Head(ss) \o Concat(Tail(ss))

SeqsUpTo(S, n) == UNION {[1..k -> S] : k \in 0..n}

\* The enumerations of a finite set: the orders in which a loop may visit it.
Orderings(S) == {f \in [1..Cardinality(S) -> S] : ToSet(f) = S}

RECURSIVE InsertSorted(_, _)
InsertSorted(x, s) ==
  IF s = <<>> THEN <<x>>
  ELSE IF x <= Head(s) THEN <<x>> \o s
  ELSE <<Head(s)>> \o InsertSorted(x, Tail(s))

\* sorted(ring)
RECURSIVE sorted(_)
sorted(s) == IF s = <<>> THEN <<>> ELSE InsertSorted(Head(s), sorted(Tail(s)))

\* s[-n:]
LastN(s, n) == IF Len(s) <= n THEN s ELSE SubSeq(s, Len(s) - n + 1, Len(s))

\* Python's "a in b" for strings: a is a substring of b.
IsSubstring(a, b) ==
  \E i \in 1..(Len(b) + 1) :
    /\ i + Len(a) - 1 <= Len(b)
    /\ SubSeq(b, i, i + Len(a) - 1) = a

----------------------------------------------------------------------------
(* remove_redundant_rings *)

\* set([str(sorted(ring)) for ring in rings]) over the non-empty rings.  The
\* string of a sorted list of integers determines the list, and
\* ast.literal_eval gives it back: the strings are the sorted lists.
ring_strings(rings) == {sorted(rings[i]) : i \in {j \in DOMAIN rings : rings[j] # <<>>}}

\* (the inner loop starting after fst_index instead of at 0)
remove_redundant_rings_mut(rings, listed) ==
  LET keep(snd) == ~ \E fst \in DOMAIN listed :
                       /\ fst < snd
                       /\ ToSet(listed[fst]) \subseteq ToSet(listed[snd])
      idx == {i \in DOMAIN listed : keep(i)}
      pick[i \in 0..Len(listed)] ==
        IF i = 0 THEN <<>>
        ELSE IF i \in idx THEN Append(pick[i-1], listed[i]) ELSE pick[i-1]
  IN pick[Len(listed)]

\* listed is list(set(...)): the strings in the order the set yields them,
\* which the caller does not control.  ring_dict loses index snd as soon as
\* some other ring fst is a subset of ring snd, whether or not fst is still in
\* the dict; ring_dict.values() lists what is left by increasing index.
remove_redundant_rings(rings, listed) ==
  LET keep(snd) == ~ \E fst \in DOMAIN listed :
                       /\ fst # snd
                       /\ ToSet(listed[fst]) \subseteq ToSet(listed[snd])
      idx == {i \in DOMAIN listed : keep(i)}
      pick[i \in 0..Len(listed)] ==
        IF i = 0 THEN <<>>
        ELSE IF i \in idx THEN Append(pick[i-1], listed[i]) ELSE pick[i-1]
  IN pick[Len(listed)]

----------------------------------------------------------------------------
(* Atoms and the loader *)

protein_resnames ==
  {<<"A","L","A">>, <<"A","R","G">>, <<"A","S","N">>,
    <<"A","S","P">>, <<"A","S","H">>, <<"A","S","X">>,
    <<"C","Y","S">>, <<"C","Y","M">>, <<"C","Y","X">>,
    <<"G","L","N">>, <<"G","L","U">>, <<"G","L","H">>,
    <<"G","L","X">>, <<"G","L","Y">>, <<"H","I","S">>,
    <<"H","I","D">>, <<"H","I","E">>, <<"H","I","P">>,
    <<"I","L","E">>, <<"L","E","U">>, <<"L","Y","S">>,
    <<"L","Y","N">>, <<"M","E","T">>, <<"P","H","E">>,
    <<"P","R","O">>, <<"S","E","R">>, <<"T","H","R">>,
    <<"T","R","P">>, <<"T","Y","R">>, <<"V","A","L">>}

\* Atom(): a new atom has no bonds, and its structure label is the default.
Atom(line) ==
  [atomname |-> line.atomname, residue |-> line.residue, resid |-> line.resid,
   chain |-> line.chain, element |-> line.element,
   coordinates |-> line.coordinates, tors |-> line.tors, ang |-> line.ang,
   indices_of_atoms_connecting |-> <<>>, structure |-> "OTHER"]

number_of_neighbors(atom) == Len(atom.indices_of_atoms_connecting)

\* Atom.add_neighbor_atom_indices: the bonded indices are kept as a set, in
\* the order they were first given.
RECURSIVE add_neighbor_atom_indices(_, _)
add_neighbor_atom_indices(atom, indices) ==
  IF indices = <<>> THEN atom
  ELSE add_neighbor_atom_indices(
         IF Contains(atom.indices_of_atoms_connecting, Head(indices)) THEN atom
         ELSE [atom EXCEPT !.indices_of_atoms_connecting = Append(@, Head(indices))],
         Tail(indices))

\* Atom.side_chain_or_backbone
side_chain_or_backbone(atom) ==
  IF atom.atomname \in {"N", "CA", "C", "O"} THEN "BACKBONE" ELSE "SIDECHAIN"

\* The reindexing loop: line i of the file becomes all_atoms[i].
load_atoms_from_PDBQT(lines) == [i \in 1..Len(lines) |-> Atom(lines[i])]

\* An atom goes to non_protein_atoms too unless residue[-3:] is a protein
\* residue's name.
non_protein_keys(atoms) ==
  {i \in DOMAIN atoms : LastN(atoms[i].residue, 3) \notin protein_resnames}

\* (a bonded index that names no atom is skipped)
RECURSIVE load_bonds_from_PDB_mut(_, _)
load_bonds_from_PDB_mut(atoms, lines) ==
  IF lines = <<>> THEN [atoms |-> atoms, err |-> "none"]
  ELSE LET line == Head(lines) IN
    IF ~ line.long THEN [atoms |-> atoms, err |-> "ValueError"]
    ELSE IF line.atom_index \notin DOMAIN atoms
      THEN [atoms |-> atoms, err |-> "ValueError"]
    ELSE load_bonds_from_PDB_mut(
           [atoms EXCEPT ![line.atom_index] =
              add_neighbor_atom_indices(@,
                SelectSeq(line.bonded, LAMBDA b : b \in DOMAIN atoms))],
           Tail(lines))

\* The CONECT lines in file order.  A line shorter than 31 characters, an
\* atom index or a bonded index that is no key of all_atoms raises ValueError
\* at that line; the lines before it have already added their bonds.
RECURSIVE load_bonds_from_PDB(_, _)
load_bonds_from_PDB(atoms, lines) ==
  IF lines = <<>> THEN [atoms |-> atoms, err |-> "none"]
  ELSE LET line == Head(lines) IN
    IF ~ line.long THEN [atoms |-> atoms, err |-> "ValueError"]
    ELSE IF line.atom_index \notin DOMAIN atoms
      THEN [atoms |-> atoms, err |-> "ValueError"]
    ELSE IF \E k \in DOMAIN line.bonded : line.bonded[k] \notin DOMAIN atoms
      THEN [atoms |-> atoms, err |-> "ValueError"]
    ELSE load_bonds_from_PDB(
           [atoms EXCEPT ![line.atom_index] =
              add_neighbor_atom_indices(@, line.bonded)],
           Tail(lines))

connected_atoms_of_given_element(atoms, index, con_element) ==
  SelectSeq(atoms[index].indices_of_atoms_connecting,
            LAMBDA c : atoms[c].element = con_element)

connected_heavy_atoms(atoms, index) ==
  SelectSeq(atoms[index].indices_of_atoms_connecting,
            LAMBDA c : atoms[c].element # "H")

\* The residue key RESNAME_RESNUMBER_CHAIN, kept as its three parts.
residue_key(atom) == <<atom.residue, atom.resid, atom.chain>>

\* get_residues: the keys in the order of their first atom, each with its
\* atoms' indices in load order.
get_residues(atoms) ==
  LET firsts == SelectSeq([i \in 1..Len(atoms) |-> i],
                   LAMBDA i : \A j \in 1..(i-1) :
                                residue_key(atoms[j]) # residue_key(atoms[i]))
  IN [k \in 1..Len(firsts) |->
        [key |-> residue_key(atoms[firsts[k]]),
         res |-> SelectSeq([i \in 1..Len(atoms) |-> i],
                   LAMBDA i : residue_key(atoms[i]) = residue_key(atoms[firsts[k]]))]]

----------------------------------------------------------------------------
(* Aromatic rings of ligands *)

\* MathFunctions.dihedral, in degrees: the torsion of four points in a row is
\* the input angle carried by the last of them.
dihedral(atoms, p1, p2, p3, p4) == atoms[p4].tors

\* The walk from index, having crossed already_crossed (which begins with
\* orig_atom); the result is what the call appends to all_rings, in order.
\* ring_visit is the loop over the atom's bonds from position k on.
RECURSIVE ring_recursive(_, _, _, _)
RECURSIVE ring_visit(_, _, _, _, _)
ring_recursive(atoms, index, already_crossed, orig_atom) ==
  IF Len(already_crossed) > 6 THEN <<>>
  ELSE ring_visit(atoms, index, already_crossed, orig_atom, 1)

ring_visit(atoms, index, already_crossed, orig_atom, k) ==
  LET con == atoms[index].indices_of_atoms_connecting
      updated_crossings == Append(already_crossed, index)
  IN IF k > Len(con) THEN <<>>
     ELSE (IF ~ Contains(already_crossed, con[k])
             THEN ring_recursive(atoms, con[k], updated_crossings, orig_atom)
             ELSE <<>>)
          \o (IF con[k] = orig_atom /\ orig_atom # already_crossed[Len(already_crossed)]
                THEN <<updated_crossings>> ELSE <<>>)
          \o ring_visit(atoms, index, already_crossed, orig_atom, k + 1)

\* (the walk started through the first bonded atom only)
all_rings_containing_atom_mut(atoms, index) ==
  LET con == atoms[index].indices_of_atoms_connecting
  IN IF con = <<>> THEN <<>> ELSE ring_recursive(atoms, con[1], <<index>>, index)

all_rings_containing_atom(atoms, index) ==
  LET con == atoms[index].indices_of_atoms_connecting
  IN Concat([k \in 1..Len(con) |-> ring_recursive(atoms, con[k], <<index>>, index)])

\* The angle test of ring_is_flat: more than 15 degrees away from 0 and 180.
not_flat_angle(angle) ==
  (angle > -165 /\ angle < -15) \/ (angle > 15 /\ angle < 165)

\* ring[t] with Python's negative indices.
ring_at(ring, t) == ring[(t % Len(ring)) + 1]

\* The loop of ring_is_flat from window t on.  is_flat is "unset" until an
\* assignment is_flat = False has run: the assignment is_flat = True that
\* should open the function is commented out, so the final "return is_flat"
\* reads an unassigned local when no test has failed.  A ring atom or a
\* substituent that is not in non_protein_atoms is a KeyError.
RECURSIVE ring_is_flat_from(_, _, _, _, _)
ring_is_flat_from(atoms, non_protein, ring, t, is_flat) ==
  IF t > Len(ring) - 4
    THEN (IF is_flat = "unset" THEN "UnboundLocalError" ELSE is_flat)
  ELSE
    LET cur == ring_at(ring, t + 3)
        cur_atom == atoms[cur]
        subs == cur_atom.indices_of_atoms_connecting
        bad == {k \in DOMAIN subs : not_flat_angle(
                  dihedral(atoms, ring_at(ring, t+1), ring_at(ring, t+2), cur, subs[k]))}
        alien == {k \in DOMAIN subs : subs[k] \notin non_protein}
        \* the inner loop stops at the first substituent out of the plane
        first_bad == IF bad = {} THEN Len(subs) + 1
                     ELSE CHOOSE k \in bad : \A j \in bad : k <= j
    IN IF \E d \in 0..3 : ring_at(ring, t + d) \notin non_protein THEN "KeyError"
       ELSE IF cur_atom.element = "C" /\ number_of_neighbors(cur_atom) = 4 THEN "False"
       ELSE IF not_flat_angle(dihedral(atoms, ring_at(ring, t), ring_at(ring, t+1),
                                       ring_at(ring, t+2), cur))
         THEN "False"
       ELSE IF \E k \in alien : k <= first_bad THEN "KeyError"
       ELSE ring_is_flat_from(atoms, non_protein, ring, t + 1,
                              IF bad = {} THEN is_flat ELSE "False")

ring_is_flat(atoms, non_protein, ring) ==
  ring_is_flat_from(atoms, non_protein, ring, -3, "unset")

\* "Aromatic rings are of length 5 or 6"
\* (a ring of fewer than 5 atoms taken as well)
has_aromatic_size_mut(ring) == Len(ring) <= 6

has_aromatic_size(ring) == Len(ring) = 5 \/ Len(ring) = 6

\* (two member indices taken as enough)
get_aromatic_marker_mut(atoms, indices_of_ring) ==
  IF Len(indices_of_ring) < 2 THEN [err |-> "ValueError", marker |-> <<>>]
  ELSE IF \E k \in DOMAIN indices_of_ring : indices_of_ring[k] \notin DOMAIN atoms
    THEN [err |-> "KeyError", marker |-> <<>>]
  ELSE [err |-> "none", marker |-> [indices |-> indices_of_ring]]

\* get_aromatic_marker: the marker's member list is the list given; its
\* centre, plane and radius are floating-point geometry and are left out.
\* The length test comes first; self.all_atoms[index] is a KeyError for an
\* index that is no key of all_atoms.
get_aromatic_marker(atoms, indices_of_ring) ==
  IF Len(indices_of_ring) < 3 THEN [err |-> "ValueError", marker |-> <<>>]
  ELSE IF \E k \in DOMAIN indices_of_ring : indices_of_ring[k] \notin DOMAIN atoms
    THEN [err |-> "KeyError", marker |-> <<>>]
  ELSE [err |-> "none", marker |-> [indices |-> indices_of_ring]]

\* [ring for ring in rings if self.ring_is_flat(ring)]: the rings in order,
\* until a call raises.
RECURSIVE flat_rings(_, _, _)
flat_rings(atoms, non_protein, rings) ==
  IF rings = <<>> THEN [calls |-> <<>>, flat |-> <<>>, err |-> "none"]
  ELSE LET r == ring_is_flat(atoms, non_protein, Head(rings)) IN
    IF r \notin {"True", "False"}
      THEN [calls |-> <<Head(rings)>>, flat |-> <<>>, err |-> r]
    ELSE LET rest == flat_rings(atoms, non_protein, Tail(rings)) IN
      [calls |-> <<Head(rings)>> \o rest.calls,
       flat |-> (IF r = "True" THEN <<Head(rings)>> ELSE <<>>) \o rest.flat,
       err |-> rest.err]

\* The rings the search records from every ligand atom, in key order.
ligand_rings(atoms, non_protein) ==
  Concat([i \in 1..Len(atoms) |->
            IF i \in non_protein THEN all_rings_containing_atom(atoms, i) ELSE <<>>])

\* assign_non_protein_aromatic_rings, given the rings found and the order in
\* which list(set(...)) yields them: what each stage of the method produced.
assign_non_protein_aromatic_rings(atoms, non_protein, found, listed) ==
  LET kept == remove_redundant_rings(found, listed)
      sized == SelectSeq(kept, has_aromatic_size)
      scan == flat_rings(atoms, non_protein, sized)
      made == [i \in 1..Len(scan.flat) |-> get_aromatic_marker(atoms, scan.flat[i])]
      bad == {i \in DOMAIN made : made[i].err # "none"}
      upto == IF bad = {} THEN Len(made) ELSE CHOOSE i \in bad : \A j \in bad : i <= j
  IN [kept |-> kept,
      flat_calls |-> scan.calls,
      marker_calls |-> IF scan.err # "none" THEN <<>> ELSE SubSeq(scan.flat, 1, upto),
      markers |-> IF scan.err # "none" THEN <<>>
                  ELSE [i \in 1..(IF bad = {} THEN upto ELSE upto - 1) |-> made[i].marker],
      err |-> IF scan.err # "none" THEN scan.err
              ELSE IF bad # {} THEN made[upto].err ELSE "none"]

----------------------------------------------------------------------------
(* Aromatic rings of residues *)

PHE == <<"P","H","E">>
TYR == <<"T","Y","R">>
TRP == <<"T","R","P">>
HIS == <<"H","I","S">>
HID == <<"H","I","D">>
HIE == <<"H","I","E">>
HIP == <<"H","I","P">>

\* One marker per residue that accepted(name) takes and that has at least 3
\* atoms named in ring_atomnames.  The name tested is the whole residue name
\* of the key.
\* "real_resname in resname": resname is a string in two of the calls (a
\* substring test) and a list of names in the others.
python_in(real_resname, resname) ==
  IF "string" \in DOMAIN resname
    THEN IsSubstring(real_resname, resname.string)
    ELSE real_resname \in resname.list

\* (a residue with exactly 3 ring atoms passed over)
get_residue_aromatics_mut(atoms, residues, resname, ring_atomnames) ==
  Concat([k \in 1..Len(residues) |->
    LET indices_of_ring == SelectSeq(residues[k].res,
                             LAMBDA i : atoms[i].atomname \in ring_atomnames)
    IN IF python_in(residues[k].key[1], resname) /\ Len(indices_of_ring) > 3
         THEN <<get_aromatic_marker(atoms, indices_of_ring).marker>>
         ELSE <<>>])

\* (a residue with 2 ring atoms handed on as well)
get_residue_aromatics_calls_mut(atoms, residues, resname, ring_atomnames) ==
  Concat([k \in 1..Len(residues) |->
    LET indices_of_ring == SelectSeq(residues[k].res,
                             LAMBDA i : atoms[i].atomname \in ring_atomnames)
    IN IF python_in(residues[k].key[1], resname) /\ Len(indices_of_ring) >= 2
         THEN <<indices_of_ring>>
         ELSE <<>>])

\* The lists get_residue_aromatics hands to get_aromatic_marker, in order.
get_residue_aromatics_calls(atoms, residues, resname, ring_atomnames) ==
  Concat([k \in 1..Len(residues) |->
    LET indices_of_ring == SelectSeq(residues[k].res,
                             LAMBDA i : atoms[i].atomname \in ring_atomnames)
    IN IF python_in(residues[k].key[1], resname) /\ Len(indices_of_ring) >= 3
         THEN <<indices_of_ring>>
         ELSE <<>>])

\* What get_residue_aromatics returns when no call raises.
get_residue_aromatics(atoms, residues, resname, ring_atomnames) ==
  LET calls == get_residue_aromatics_calls(atoms, residues, resname, ring_atomnames)
  IN [i \in 1..Len(calls) |-> get_aromatic_marker(atoms, calls[i]).marker]

\* resname is the string "PHE": "real_resname in resname" is a substring test.
get_phenylalanine_aromatics(atoms, residues) ==
  get_residue_aromatics(atoms, residues, [string |-> PHE],
                        {"CG", "CD1", "CE1", "CZ", "CE2", "CD2"})

get_tyrosine_aromatics(atoms, residues) ==
  get_residue_aromatics(atoms, residues, [string |-> TYR],
                        {"CG", "CD1", "CE1", "CZ", "CE2", "CD2"})

get_histidine_aromatics(atoms, residues) ==
  get_residue_aromatics(atoms, residues, [list |-> {HIS, HID, HIE, HIP}],
                        {"CG", "ND1", "CE1", "NE2", "CD2"})

get_tryptophan_aromatics(atoms, residues) ==
  get_residue_aromatics(atoms, residues, [list |-> {TRP}],
                        {"CG", "CD1", "NE1", "CE2", "CD2"})
  \o get_residue_aromatics(atoms, residues, [list |-> {TRP}],
                        {"CE2", "CD2", "CE3", "CZ3", "CH2", "CZ2"})

\* The five calls of get_residue_aromatics, in the order their results are
\* appended to aromatic_rings.
residue_aromatic_rules ==
  << [resname |-> [string |-> PHE],
      ring_atomnames |-> {"CG", "CD1", "CE1", "CZ", "CE2", "CD2"}],
     [resname |-> [string |-> TYR],
      ring_atomnames |-> {"CG", "CD1", "CE1", "CZ", "CE2", "CD2"}],
     [resname |-> [list |-> {HIS, HID, HIE, HIP}],
      ring_atomnames |-> {"CG", "ND1", "CE1", "NE2", "CD2"}],
     [resname |-> [list |-> {TRP}],
      ring_atomnames |-> {"CG", "CD1", "NE1", "CE2", "CD2"}],
     [resname |-> [list |-> {TRP}],
      ring_atomnames |-> {"CE2", "CD2", "CE3", "CZ3", "CH2", "CZ2"}] >>

\* The four statements "self.aromatic_rings += ..." of
\* assign_protein_aromatic_rings: for each, the lists handed to
\* get_aromatic_marker and the markers the statement appends.
protein_ring_statements(atoms, residues) ==
  LET calls == [r \in DOMAIN residue_aromatic_rules |->
                  get_residue_aromatics_calls(atoms, residues,
                    residue_aromatic_rules[r].resname,
                    residue_aromatic_rules[r].ring_atomnames)]
  IN << [calls |-> calls[1], markers |-> get_phenylalanine_aromatics(atoms, residues)],
        [calls |-> calls[2], markers |-> get_tyrosine_aromatics(atoms, residues)],
        [calls |-> calls[3], markers |-> get_histidine_aromatics(atoms, residues)],
        [calls |-> calls[4] \o calls[5],
         markers |-> get_tryptophan_aromatics(atoms, residues)] >>

\* The statements in order, from statement g on; a call of
\* get_aromatic_marker that raises ends the method, and the statement it
\* belongs to appends nothing.
RECURSIVE protein_ring_run(_, _, _)
protein_ring_run(atoms, statements, g) ==
  IF g > Len(statements) THEN [markers |-> <<>>, calls |-> <<>>, err |-> "none"]
  ELSE LET calls == statements[g].calls
           bad == {c \in DOMAIN calls : get_aromatic_marker(atoms, calls[c]).err # "none"}
           first_bad == CHOOSE c \in bad : \A d \in bad : c <= d
           rest == protein_ring_run(atoms, statements, g + 1)
       IN IF bad # {}
            THEN [markers |-> <<>>, calls |-> SubSeq(calls, 1, first_bad),
                  err |-> get_aromatic_marker(atoms, calls[first_bad]).err]
            ELSE [markers |-> statements[g].markers \o rest.markers,
                  calls |-> calls \o rest.calls, err |-> rest.err]

assign_protein_aromatic_rings(atoms) ==
  CHOOSE result \in
    {protein_ring_run(atoms, statements, 1) :
     statements \in {protein_ring_statements(atoms, get_residues(atoms))}} : TRUE

----------------------------------------------------------------------------
(* Charged groups *)

\* A Point with the given coordinates.
Pt(c) == [num |-> c, den |-> 1]

RECURSIVE SumPoints(_)
SumPoints(cs) ==
  IF cs = <<>> THEN <<0, 0, 0>>
  ELSE LET r == SumPoints(Tail(cs)) h == Head(cs)
       IN <<h[1] + r[1], h[2] + r[2], h[3] + r[3]>>

\* average_point: the sum of the points over their number.
average_point(cs) == [num |-> SumPoints(cs), den |-> Len(cs)]

\* Point.magnitude() != 0
nonzero_magnitude(p) == p.num # <<0, 0, 0>>

\* MathFunctions.angle_between_three_points, in degrees: the angle at the
\* middle atom is the input angle that atom carries.
angle_between_three_points(atoms, a, centre, b) == atoms[centre].ang

Charged(coordinates, indices, positive) ==
  [coordinates |-> coordinates, indices |-> indices, positive |-> positive]

\* The loops "for atom_index in self.non_protein_atoms" run in key order.
identify_metallic_charges(atoms, non_protein) ==
  Concat([i \in 1..Len(atoms) |->
    IF /\ i \in non_protein
       /\ atoms[i].element \in {"MG", "MN", "RH", "ZN", "FE", "BI", "AS", "AG"}
      THEN <<Charged(Pt(atoms[i].coordinates), <<i>>, TRUE)>>
      ELSE <<>>])

\* (the 3-neighbour test tried as well, not instead)
nitrogen_rule_mut(atoms, i) ==
  LET atom == atoms[i]
      con == atom.indices_of_atoms_connecting
      group == Charged(Pt(atom.coordinates), <<i>> \o con, TRUE)
  IN IF atom.element # "N" THEN <<>>
     ELSE (IF number_of_neighbors(atom) = 4 THEN <<group>> ELSE <<>>)
          \o (IF number_of_neighbors(atom) >= 3 THEN <<group>> ELSE <<>>)

\* One ligand atom of identify_nitrogen_group_charges.  The mean of the three
\* angles is within 5 degrees of 109 when their sum is within 15 of 327.
nitrogen_rule(atoms, i) ==
  LET atom == atoms[i]
      con == atom.indices_of_atoms_connecting
      group == Charged(Pt(atom.coordinates), <<i>> \o con, TRUE)
  IN IF atom.element # "N" THEN <<>>
     ELSE IF number_of_neighbors(atom) = 4 THEN <<group>>
     ELSE IF number_of_neighbors(atom) = 3 THEN
       LET angle1 == angle_between_three_points(atoms, con[1], i, con[2])
           angle2 == angle_between_three_points(atoms, con[1], i, con[3])
           angle3 == angle_between_three_points(atoms, con[2], i, con[3])
           sum == angle1 + angle2 + angle3
       IN IF sum - 327 < 15 /\ 327 - sum < 15 THEN <<group>> ELSE <<>>
     ELSE <<>>

identify_nitrogen_group_charges(atoms, non_protein) ==
  Concat([i \in 1..Len(atoms) |->
    IF i \in non_protein THEN nitrogen_rule(atoms, i) ELSE <<>>])

\* A phosphorus with at least 2 oxygens, at least 2 of them bonded to one
\* heavy atom only.
identify_phosphorus_group_charges(atoms, non_protein) ==
  Concat([i \in 1..Len(atoms) |->
    LET oxygens == connected_atoms_of_given_element(atoms, i, "O")
        count == Cardinality({k \in DOMAIN oxygens :
                                Len(connected_heavy_atoms(atoms, oxygens[k])) = 1})
    IN IF /\ i \in non_protein
          /\ atoms[i].element = "P" /\ Len(oxygens) >= 2 /\ count >= 2
         THEN <<Charged(Pt(atoms[i].coordinates), <<i>> \o oxygens, FALSE)>>
         ELSE <<>>])

identify_sulfur_group_charges(atoms, non_protein) ==
  Concat([i \in 1..Len(atoms) |->
    LET oxygens == connected_atoms_of_given_element(atoms, i, "O")
        count == Cardinality({k \in DOMAIN oxygens :
                                Len(connected_heavy_atoms(atoms, oxygens[k])) = 1})
    IN IF /\ i \in non_protein
          /\ atoms[i].element = "S" /\ Len(oxygens) >= 3 /\ count >= 3
         THEN <<Charged(Pt(atoms[i].coordinates), <<i>> \o oxygens, FALSE)>>
         ELSE <<>>])

\* The guanidino half of identify_carbon_group_charges for one ligand atom.
guanidino_rule(atoms, i) ==
  LET atom == atoms[i]
      con == atom.indices_of_atoms_connecting
      nitrogens == connected_atoms_of_given_element(atoms, i, "N")
      nitrogens_to_use == SelectSeq(nitrogens,
                            LAMBDA n : Len(connected_heavy_atoms(atoms, n)) = 1)
      all_connected == SelectSeq(con, LAMBDA c : ~ Contains(nitrogens_to_use, c))
      connector_ind == IF Len(all_connected) > 0 THEN all_connected[1] ELSE -1
  IN IF atom.element # "C" \/ number_of_neighbors(atom) # 3 \/ Len(nitrogens) < 2
       THEN <<>>
     ELSE IF Len(nitrogens_to_use) = 3 /\ connector_ind = -1
       THEN <<Charged(Pt(atom.coordinates), <<i>>, TRUE)>>
     ELSE IF Len(nitrogens_to_use) = 2 /\ connector_ind # -1 THEN
       LET connector_atom == atoms[connector_ind] IN
       IF \/ connector_atom.element = "C" /\ number_of_neighbors(connector_atom) = 4
          \/ connector_atom.element = "O" /\ number_of_neighbors(connector_atom) = 2
          \/ connector_atom.element \in {"N", "S", "P"}
         THEN <<Charged(
                  average_point([k \in 1..2 |-> atoms[nitrogens_to_use[k]].coordinates]),
                  <<i>> \o nitrogens_to_use
                    \o connected_atoms_of_given_element(atoms, nitrogens_to_use[1], "H")
                    \o connected_atoms_of_given_element(atoms, nitrogens_to_use[2], "H"),
                  TRUE)>>
         ELSE <<>>
     ELSE <<>>

\* (the group listed carbon first)
carboxylate_rule_mut(atoms, i) ==
  LET atom == atoms[i]
      oxygens == connected_atoms_of_given_element(atoms, i, "O")
  IN IF /\ atom.element = "C"
        /\ number_of_neighbors(atom) = 3
        /\ Len(oxygens) = 2
        /\ Len(connected_heavy_atoms(atoms, oxygens[1])) = 1
        /\ Len(connected_heavy_atoms(atoms, oxygens[2])) = 1
       THEN <<Charged(
                average_point([k \in 1..2 |-> atoms[oxygens[k]].coordinates]),
                <<i, oxygens[1], oxygens[2]>>, FALSE)>>
       ELSE <<>>

\* The carboxylate half of identify_carbon_group_charges for one ligand atom.
carboxylate_rule(atoms, i) ==
  LET atom == atoms[i]
      oxygens == connected_atoms_of_given_element(atoms, i, "O")
  IN IF /\ atom.element = "C"
        /\ number_of_neighbors(atom) = 3
        /\ Len(oxygens) = 2
        /\ Len(connected_heavy_atoms(atoms, oxygens[1])) = 1
        /\ Len(connected_heavy_atoms(atoms, oxygens[2])) = 1
       THEN <<Charged(
                average_point([k \in 1..2 |-> atoms[oxygens[k]].coordinates]),
                <<oxygens[1], i, oxygens[2]>>, FALSE)>>
       ELSE <<>>

identify_carbon_group_charges(atoms, non_protein) ==
  Concat([i \in 1..Len(atoms) |->
    IF i \in non_protein
      THEN guanidino_rule(atoms, i) \o carboxylate_rule(atoms, i)
      ELSE <<>>])

\* (the metal ions appended last)
assign_non_protein_charges_mut(atoms, non_protein) ==
  identify_nitrogen_group_charges(atoms, non_protein)
  \o identify_carbon_group_charges(atoms, non_protein)
  \o identify_phosphorus_group_charges(atoms, non_protein)
  \o identify_sulfur_group_charges(atoms, non_protein)
  \o identify_metallic_charges(atoms, non_protein)

assign_non_protein_charges(atoms, non_protein) ==
  identify_metallic_charges(atoms, non_protein)
  \o identify_nitrogen_group_charges(atoms, non_protein)
  \o identify_carbon_group_charges(atoms, non_protein)
  \o identify_phosphorus_group_charges(atoms, non_protein)
  \o identify_sulfur_group_charges(atoms, non_protein)

LYS == <<"L","Y","S">>
LYN == <<"L","Y","N">>
ARG == <<"A","R","G">>
GLU == <<"G","L","U">>
GLH == <<"G","L","H">>
GLX == <<"G","L","X">>
ASP == <<"A","S","P">>
ASH == <<"A","S","H">>
ASX == <<"A","S","X">>

\* One record per residue whose name (the last three characters of the key's
\* name) is in resnames, that has as many atoms named in charged_atomnames as
\* charged_atomnames has names, and whose averaged point is not the origin.
get_residue_charges(atoms, residues, resnames, atomnames, charged_atomnames, positive) ==
  Concat([k \in 1..Len(residues) |->
    LET res == residues[k].res
        indices == SelectSeq(res, LAMBDA i : Contains(atomnames, atoms[i].atomname))
        charged_atoms == SelectSeq(res,
                           LAMBDA i : Contains(charged_atomnames, atoms[i].atomname))
        avg_pt == average_point(
                    [j \in 1..Len(charged_atoms) |-> atoms[charged_atoms[j]].coordinates])
    IN IF /\ LastN(residues[k].key[1], 3) \in resnames
          /\ Len(charged_atoms) = Len(charged_atomnames)
          /\ nonzero_magnitude(avg_pt)
         THEN <<Charged(avg_pt, indices, positive)>>
         ELSE <<>>])

\* (the nitrogen's name missing from the group's atom names)
get_lysine_charges_mut(atoms, residues) ==
  get_residue_charges(atoms, residues, {LYS, LYN},
    <<"HZ1", "HNZ1", "HZ2", "HNZ2", "HZ3", "HNZ3">>, <<"NZ">>, TRUE)

get_lysine_charges(atoms, residues) ==
  get_residue_charges(atoms, residues, {LYS, LYN},
    <<"NZ", "HZ1", "HNZ1", "HZ2", "HNZ2", "HZ3", "HNZ3">>, <<"NZ">>, TRUE)

get_arginine_charges(atoms, residues) ==
  get_residue_charges(atoms, residues, {ARG},
    <<"NH1", "NH2", "2HH2", "HN22", "1HH2", "HN12", "CZ", "2HH1", "HN21",
      "1HH1", "HN11">>, <<"NH1", "NH2">>, TRUE)

get_histidine_charges(atoms, residues) ==
  get_residue_charges(atoms, residues, {HIS, HID, HIE, HIP},
    <<"NE2", "ND1", "HE2", "HD1", "CE1", "CD2", "CG">>, <<"NE2", "ND1">>, TRUE)

get_glutamic_acid_charges(atoms, residues) ==
  get_residue_charges(atoms, residues, {GLU, GLH, GLX},
    <<"OE1", "OE2", "CD">>, <<"OE1", "OE2">>, FALSE)

get_aspartic_acid_charges(atoms, residues) ==
  get_residue_charges(atoms, residues, {ASP, ASH, ASX},
    <<"OD1", "OD2", "CG">>, <<"OD1", "OD2">>, FALSE)

assign_protein_charges(atoms) ==
  CHOOSE result \in
    {get_lysine_charges(atoms, residues)
       \o get_arginine_charges(atoms, residues)
       \o get_histidine_charges(atoms, residues)
       \o get_glutamic_acid_charges(atoms, residues)
       \o get_aspartic_acid_charges(atoms, residues) :
     residues \in {get_residues(atoms)}} : TRUE

\* (a record self.charges already holds left out)
residue_charge_detection_mut(atoms, charges_so_far) ==
  SelectSeq(assign_protein_charges(atoms), LAMBDA c : ~ Contains(charges_so_far, c))

\* One run of the five detectors over get_residues(), as a method of the
\* object: what it adds to self.charges.  It reads self.all_atoms;
\* self.charges, which an earlier run has extended, is only appended to.
residue_charge_detection(atoms, charges_so_far) == assign_protein_charges(atoms)

----------------------------------------------------------------------------
(* Secondary structure *)

\* The key RESNUMBER_CHAIN of the structure dict, kept as its two parts.
structure_key(atom) == <<atom.resid, atom.chain>>

is_alpha_dihedral(phi, psi) == phi > -145 /\ phi < -35 /\ psi > -70 /\ psi < 50

\* (the first psi bound of the BETA test at 40 instead of 90)
is_beta_dihedral_mut(phi, psi) ==
  \/ phi >= -180 /\ phi < -40 /\ psi <= 180 /\ psi > 40
  \/ phi >= -180 /\ phi < -70 /\ psi <= -165

is_beta_dihedral(phi, psi) ==
  \/ phi >= -180 /\ phi < -40 /\ psi <= 180 /\ psi > 90
  \/ phi >= -180 /\ phi < -70 /\ psi <= -165

\* The last atom of the window with the given residue number and name, or
\* what the local variable held before (0: never assigned).
named_in_window(atoms, window, resid, name, before) ==
  LET hits == {k \in DOMAIN window :
                 atoms[window[k]].resid = resid /\ atoms[window[k]].atomname = name}
  IN IF hits = {} THEN before
     ELSE window[CHOOSE k \in hits : \A j \in hits : j <= k]

\* The test on a full window: the first four atoms of one residue number, the
\* last four of the next one, first and last atom on the same chain.
\* ("atoms[0] != atoms[4].resid" compares an atom with a number: always true.)
window_matches(atoms, w) ==
  /\ atoms[w[1]].resid = atoms[w[2]].resid
  /\ atoms[w[1]].resid = atoms[w[3]].resid
  /\ atoms[w[1]].resid = atoms[w[4]].resid
  /\ atoms[w[5]].resid = atoms[w[6]].resid
  /\ atoms[w[5]].resid = atoms[w[7]].resid
  /\ atoms[w[5]].resid = atoms[w[8]].resid
  /\ atoms[w[1]].resid + 1 = atoms[w[8]].resid
  /\ atoms[w[1]].chain = atoms[w[8]].chain

\* The window is tested only in the branch that first drops its oldest atom:
\* when it already held 8 atoms before this one.
window_is_tested(len_before) == len_before >= 8

\* One atom of the loop of get_structure_dict.  st holds the window (atom
\* indices), the six local names first_N .. second_CA, the dict, and err.
structure_step(atoms, st, i) ==
  IF st.err # "none" \/ side_chain_or_backbone(atoms[i]) # "BACKBONE" THEN st
  ELSE
    LET w == IF Len(st.window) < 8 THEN Append(st.window, i)
             ELSE Append(Tail(st.window), i)
    IN IF ~ window_is_tested(Len(st.window)) \/ ~ window_matches(atoms, w)
         THEN [st EXCEPT !.window = w]
       ELSE
         LET resid1 == atoms[w[1]].resid
             resid2 == atoms[w[8]].resid
             first_N == named_in_window(atoms, w, resid1, "N", st.first_N)
             first_C == named_in_window(atoms, w, resid1, "C", st.first_C)
             first_CA == named_in_window(atoms, w, resid1, "CA", st.first_CA)
             second_N == named_in_window(atoms, w, resid2, "N", st.second_N)
             second_C == named_in_window(atoms, w, resid2, "C", st.second_C)
             second_CA == named_in_window(atoms, w, resid2, "CA", st.second_CA)
             named == [st EXCEPT !.window = w,
                         !.first_N = first_N, !.first_C = first_C,
                         !.first_CA = first_CA, !.second_N = second_N,
                         !.second_C = second_C, !.second_CA = second_CA]
         IN IF 0 \in {first_N, first_C, first_CA, second_N, second_C, second_CA}
              THEN [named EXCEPT !.err = "UnboundLocalError"]
            ELSE
              LET phi == dihedral(atoms, first_C, second_N, second_CA, second_C)
                  psi == dihedral(atoms, first_N, first_CA, first_C, second_N)
                  key1 == structure_key(atoms[first_C])
                  key2 == structure_key(atoms[second_C])
                  d0 == st.structure
                  d1 == IF is_alpha_dihedral(phi, psi)
                          THEN [d0 EXCEPT ![key1] = "ALPHA", ![key2] = "ALPHA"]
                          ELSE d0
                  d2 == IF is_beta_dihedral(phi, psi)
                          THEN [d1 EXCEPT ![key1] = "BETA", ![key2] = "BETA"]
                          ELSE d1
              IN [named EXCEPT !.structure = d2]

RECURSIVE structure_loop(_, _, _)
structure_loop(atoms, st, i) ==
  IF i > Len(atoms) THEN st
  ELSE CHOOSE result \in
         {structure_loop(atoms, next, i + 1) :
            next \in {structure_step(atoms, st, i)}} : TRUE

\* get_structure_dict: every key starts as OTHER.
get_structure_dict(atoms) ==
  LET keys == {structure_key(atoms[i]) : i \in DOMAIN atoms}
      st == structure_loop(atoms,
              [window |-> <<>>, first_N |-> 0, first_C |-> 0, first_CA |-> 0,
               second_N |-> 0, second_C |-> 0, second_CA |-> 0,
               structure |-> [k \in keys |-> "OTHER"], err |-> "none"], 1)
  IN [structure |-> st.structure, err |-> st.err]

\* The labels of the atoms, by index.
labels_of(atoms) == [i \in 1..Len(atoms) |-> atoms[i].structure]

\* (only the alpha-carbon of the residue relabelled)
set_structure_of_residue_mut(ps, chain, resid, structure) ==
  LET new == [i \in 1..Len(ps.atoms) |->
                IF /\ ps.atoms[i].chain = chain
                   /\ ps.atoms[i].resid = resid
                   /\ ps.atoms[i].atomname = "CA"
                  THEN [ps.atoms[i] EXCEPT !.structure = structure]
                  ELSE ps.atoms[i]]
  IN [ps EXCEPT !.atoms = new, !.trace = Append(@, labels_of(new))]

\* set_structure_of_residue on the atoms of ps; the labels it leaves are
\* added to the trace.
set_structure_of_residue(ps, chain, resid, structure) ==
  LET new == [i \in 1..Len(ps.atoms) |->
                IF ps.atoms[i].chain = chain /\ ps.atoms[i].resid = resid
                  THEN [ps.atoms[i] EXCEPT !.structure = structure]
                  ELSE ps.atoms[i]]
  IN [ps EXCEPT !.atoms = new, !.trace = Append(@, labels_of(new))]

\* Point.dist_to(...) < 6.0, on integer coordinates.
closer_than_6(a, b) ==
  (a[1]-b[1])*(a[1]-b[1]) + (a[2]-b[2])*(a[2]-b[2]) + (a[3]-b[3])*(a[3]-b[3]) < 36

\* (a BETA alpha-carbon counted as a partner too)
another_alpha_is_close_mut(atoms, CA_list, ca) ==
  \E k \in DOMAIN CA_list :
    LET other == atoms[CA_list[k]] IN
      /\ other.structure \in {"ALPHA", "BETA"}
      /\ (other.resid - 3 = atoms[ca].resid \/ other.resid + 3 = atoms[ca].resid)
      /\ closer_than_6(other.coordinates, atoms[ca].coordinates)

another_alpha_is_close(atoms, CA_list, ca) ==
  \E k \in DOMAIN CA_list :
    LET other == atoms[CA_list[k]] IN
      /\ other.structure = "ALPHA"
      /\ (other.resid - 3 = atoms[ca].resid \/ other.resid + 3 = atoms[ca].resid)
      /\ closer_than_6(other.coordinates, atoms[ca].coordinates)

another_beta_is_close(atoms, CA_list, ca) ==
  \E k \in DOMAIN CA_list :
    LET other == atoms[CA_list[k]] IN
      /\ CA_list[k] # ca
      /\ other.structure = "BETA"
      /\ other.chain = atoms[ca].chain
      /\ (other.resid - atoms[ca].resid > 2 \/ atoms[ca].resid - other.resid > 2)
      /\ closer_than_6(atoms[ca].coordinates, other.coordinates)

\* (the first loop without its test of the alpha-carbon's own label)
RECURSIVE partner_pass_mut(_, _, _, _)
partner_pass_mut(ps, CA_list, label, k) ==
  IF k > Len(CA_list) THEN ps
  ELSE LET ca == CA_list[k]
           close == IF label = "ALPHA"
                      THEN another_alpha_is_close(ps.atoms, CA_list, ca)
                      ELSE another_beta_is_close(ps.atoms, CA_list, ca)
       IN CHOOSE result \in
            {partner_pass_mut(next, CA_list, label, k + 1) : next \in
               {IF ~ close
                  THEN [set_structure_of_residue(ps, ps.atoms[ca].chain,
                                                 ps.atoms[ca].resid, "OTHER")
                          EXCEPT !.change = ps.atoms[ca].structure = label]
                  ELSE ps}} : TRUE

\* The first loop of a sweep, from position k of CA_list on: an alpha-carbon
\* labelled label without a close partner has its residue set to OTHER.
RECURSIVE partner_pass(_, _, _, _)
partner_pass(ps, CA_list, label, k) ==
  IF k > Len(CA_list) THEN ps
  ELSE LET ca == CA_list[k]
           close == IF label = "ALPHA"
                      THEN another_alpha_is_close(ps.atoms, CA_list, ca)
                      ELSE another_beta_is_close(ps.atoms, CA_list, ca)
       IN CHOOSE result \in
            {partner_pass(next, CA_list, label, k + 1) : next \in
               {IF ps.atoms[ca].structure = label /\ ~ close
                  THEN [set_structure_of_residue(ps, ps.atoms[ca].chain,
                                                 ps.atoms[ca].resid, "OTHER")
                          EXCEPT !.change = TRUE]
                  ELSE ps}} : TRUE

\* The runs the second loop looks for in a window, as <<first, last>>
\* positions, in the order of the if statements.
alpha_runs == << <<2,2>>, <<3,3>>, <<4,4>>, <<5,5>>, <<2,3>>, <<3,4>>, <<4,5>>,
                 <<2,4>>, <<3,5>>, <<2,5>> >>

beta_runs == << <<2,2>>, <<3,3>>, <<2,3>> >>

RECURSIVE demote(_, _, _, _)
demote(ps, window, from, to) ==
  IF from > to THEN ps
  ELSE CHOOSE result \in
         {demote(next, window, from + 1, to) : next \in
            {set_structure_of_residue(ps, ps.atoms[window[from]].chain,
                                      ps.atoms[window[from]].resid, "OTHER")}} : TRUE

\* The if statements of one window, from statement r on: a run of label
\* with another label just before and just after it is set to OTHER.
RECURSIVE window_ifs(_, _, _, _, _)
window_ifs(ps, window, runs, label, r) ==
  IF r > Len(runs) THEN ps
  ELSE LET from == runs[r][1]
           to == runs[r][2]
           hit == /\ ps.atoms[window[from - 1]].structure # label
                  /\ \A q \in from..to : ps.atoms[window[q]].structure = label
                  /\ ps.atoms[window[to + 1]].structure # label
       IN CHOOSE result \in
            {window_ifs(next, window, runs, label, r + 1) : next \in
               {IF hit THEN [demote(ps, window, from, to) EXCEPT !.change = TRUE]
                       ELSE ps}} : TRUE

\* (the second loop without its test of the residue numbers)
RECURSIVE window_pass_mut(_, _, _, _, _, _)
window_pass_mut(ps, CA_list, width, runs, label, k) ==
  IF k > Len(CA_list) - (width - 1) THEN ps
  ELSE LET window == SubSeq(CA_list, k, k + width - 1)
       IN CHOOSE result \in
            {window_pass_mut(next, CA_list, width, runs, label, k + 1) : next \in
               {window_ifs(ps, window, runs, label, 1)}} : TRUE

\* The second loop of a sweep, from window k on; width is 6 or 4.
RECURSIVE window_pass(_, _, _, _, _, _)
window_pass(ps, CA_list, width, runs, label, k) ==
  IF k > Len(CA_list) - (width - 1) THEN ps
  ELSE LET window == SubSeq(CA_list, k, k + width - 1)
           sequential == \A q \in 1..(width - 1) :
                           ps.atoms[window[q]].resid + 1 = ps.atoms[window[q+1]].resid
       IN CHOOSE result \in
            {window_pass(next, CA_list, width, runs, label, k + 1) : next \in
               {IF sequential THEN window_ifs(ps, window, runs, label, 1)
                              ELSE ps}} : TRUE

\* One sweep of a clean-up loop: change = False, the partner loop, then the
\* window loop.  The sweep is recorded with the labels before it, between
\* its two loops and after it.
sweep(ps, CA_list, width, runs, label) ==
  CHOOSE result \in
    {CHOOSE swept \in
       {[after EXCEPT !.sweeps =
           Append(@, [label |-> label, change |-> after.change,
                      before |-> labels_of(ps.atoms),
                      mid |-> labels_of(mid.atoms),
                      after |-> labels_of(after.atoms)])] :
        after \in {window_pass(mid, CA_list, width, runs, label, 1)}} : TRUE :
     mid \in {partner_pass([ps EXCEPT !.change = FALSE], CA_list, label, 1)}} : TRUE

\* (a second sweep made whether or not the first changed a label)
RECURSIVE process_alpha_helices_mut(_, _)
process_alpha_helices_mut(ps, CA_list) ==
  CHOOSE result \in
    {IF swept.change \/ Len(swept.sweeps) = 1
       THEN process_alpha_helices_mut(swept, CA_list)
       ELSE swept : swept \in {sweep(ps, CA_list, 6, alpha_runs, "ALPHA")}} : TRUE

\* (the body of the loop run once)
process_alpha_helices_once(ps, CA_list) == sweep(ps, CA_list, 6, alpha_runs, "ALPHA")

\* while change == True: sweep.
RECURSIVE process_alpha_helices(_, _)
process_alpha_helices(ps, CA_list) ==
  CHOOSE result \in
    {IF swept.change
       THEN process_alpha_helices(swept, CA_list)
       ELSE swept : swept \in {sweep(ps, CA_list, 6, alpha_runs, "ALPHA")}} : TRUE

\* (the body of the loop run once)
process_beta_sheets_once(ps, CA_list) == sweep(ps, CA_list, 4, beta_runs, "BETA")

RECURSIVE process_beta_sheets(_, _)
process_beta_sheets(ps, CA_list) ==
  CHOOSE result \in
    {IF swept.change
       THEN process_beta_sheets(swept, CA_list)
       ELSE swept : swept \in {sweep(ps, CA_list, 4, beta_runs, "BETA")}} : TRUE

\* The alpha-carbons of protein residues; here the whole residue name is
\* looked up.
alpha_carbons(atoms) ==
  SelectSeq([i \in 1..Len(atoms) |-> i],
            LAMBDA i : atoms[i].residue \in protein_resnames /\ atoms[i].atomname = "CA")

\* "atom.structure = structure[key]" for every atom.
write_labels(atoms, structure) ==
  [i \in 1..Len(atoms) |->
     [atoms[i] EXCEPT !.structure = structure[structure_key(atoms[i])]]]

\* The two clean-up loops, on the atoms as labelled from the dict.
clean_up(labelled, CA_list) ==
  CHOOSE result \in
    {[atoms |-> sheets.atoms, trace |-> sheets.trace, sweeps |-> sheets.sweeps,
      err |-> "none"] :
       sheets \in
         {process_beta_sheets(helices, CA_list) :
            helices \in
              {process_alpha_helices(
                 [atoms |-> labelled, trace |-> <<labels_of(labelled)>>,
                  change |-> TRUE, sweeps |-> <<>>], CA_list)}}} : TRUE

\* assign_secondary_structure: the labels of the dict written to every atom,
\* then the two clean-up loops.
assign_secondary_structure(atoms) ==
  CHOOSE result \in
    {IF dict.err # "none"
       THEN [atoms |-> atoms, trace |-> <<>>, sweeps |-> <<>>, err |-> dict.err]
       ELSE CHOOSE done \in
              {clean_up(labelled, CA_list) :
                 labelled \in {write_labels(atoms, dict.structure)}} : TRUE
     : dict \in {get_structure_dict(atoms)}, CA_list \in {alpha_carbons(atoms)}} : TRUE

----------------------------------------------------------------------------
(* load_from_files, one method per step *)

Fresh(lines, records) ==
  /\ pdbqt = lines
  /\ conect = records
  /\ all_atoms = <<>>
  /\ non_protein_atoms = {}
  /\ aromatic_rings = <<>>
  /\ charges = <<>>
  /\ pc = "load_atoms_from_PDBQT"
  /\ err = "none"
  /\ rings_found = <<>>
  /\ rings_kept = <<>>
  /\ ring_is_flat_calls = <<>>
  /\ get_aromatic_marker_calls = <<>>
  /\ structure_trace = <<>>
  /\ residue_charge_runs = <<>>
  /\ sweep_trace = <<>>

LoadAtoms ==
  /\ pc = "load_atoms_from_PDBQT" /\ err = "none"
  /\ all_atoms' = load_atoms_from_PDBQT(pdbqt)
  /\ non_protein_atoms' = non_protein_keys(all_atoms')
  /\ pc' = "load_bonds_from_PDB"
  /\ UNCHANGED <<residue_charge_runs, sweep_trace,
                 pdbqt, conect, aromatic_rings, charges, err, rings_found,
                 rings_kept, ring_is_flat_calls, get_aromatic_marker_calls,
                 structure_trace>>

LoadBonds ==
  /\ pc = "load_bonds_from_PDB" /\ err = "none"
  /\ \E r \in {load_bonds_from_PDB(all_atoms, conect)} :
       /\ all_atoms' = r.atoms
       /\ err' = r.err
       /\ pc' = IF r.err = "none" THEN "check_protein_format" ELSE pc
  /\ UNCHANGED <<residue_charge_runs, sweep_trace,
                 pdbqt, conect, non_protein_atoms, aromatic_rings, charges,
                 rings_found, rings_kept, ring_is_flat_calls,
                 get_aromatic_marker_calls, structure_trace>>

\* check_protein_format only prints.
CheckProteinFormat ==
  /\ pc = "check_protein_format" /\ err = "none"
  /\ pc' = "assign_non_protein_aromatic_rings"
  /\ UNCHANGED <<residue_charge_runs, sweep_trace,
                 pdbqt, conect, all_atoms, non_protein_atoms, aromatic_rings,
                 charges, err, rings_found, rings_kept, ring_is_flat_calls,
                 get_aromatic_marker_calls, structure_trace>>

AssignNonProteinAromaticRings ==
  /\ pc = "assign_non_protein_aromatic_rings" /\ err = "none"
  /\ \E found \in {ligand_rings(all_atoms, non_protein_atoms)} :
     \E listed \in Orderings(ring_strings(found)) :
     \E r \in {assign_non_protein_aromatic_rings(all_atoms, non_protein_atoms,
                                                  found, listed)} :
         /\ rings_found' = found
         /\ rings_kept' = r.kept
         /\ ring_is_flat_calls' = r.flat_calls
         /\ get_aromatic_marker_calls' = get_aromatic_marker_calls \o r.marker_calls
         /\ aromatic_rings' = aromatic_rings \o r.markers
         /\ err' = r.err
         /\ pc' = IF r.err = "none" THEN "assign_protein_aromatic_rings" ELSE pc
  /\ UNCHANGED <<residue_charge_runs, sweep_trace,
                 pdbqt, conect, all_atoms, non_protein_atoms, charges,
                 structure_trace>>

AssignProteinAromaticRings ==
  /\ pc = "assign_protein_aromatic_rings" /\ err = "none"
  /\ \E r \in {assign_protein_aromatic_rings(all_atoms)} :
       /\ aromatic_rings' = aromatic_rings \o r.markers
       /\ get_aromatic_marker_calls' = get_aromatic_marker_calls \o r.calls
       /\ err' = r.err
       /\ pc' = IF r.err = "none" THEN "assign_non_protein_charges" ELSE pc
  /\ UNCHANGED <<residue_charge_runs, sweep_trace,
                 pdbqt, conect, all_atoms, non_protein_atoms, charges,
                 rings_found, rings_kept, ring_is_flat_calls, structure_trace>>

AssignNonProteinCharges ==
  /\ pc = "assign_non_protein_charges" /\ err = "none"
  /\ charges' = charges \o assign_non_protein_charges(all_atoms, non_protein_atoms)
  /\ pc' = "assign_protein_charges"
  /\ UNCHANGED <<residue_charge_runs, sweep_trace,
                 pdbqt, conect, all_atoms, non_protein_atoms, aromatic_rings,
                 err, rings_found, rings_kept, ring_is_flat_calls,
                 get_aromatic_marker_calls, structure_trace>>

AssignProteinCharges ==
  /\ pc = "assign_protein_charges" /\ err = "none"
  /\ \E r \in {residue_charge_detection(all_atoms, charges)} :
       /\ charges' = charges \o r
       /\ residue_charge_runs' = Append(residue_charge_runs, r)
  /\ pc' = "assign_secondary_structure"
  /\ UNCHANGED <<pdbqt, conect, all_atoms, non_protein_atoms, aromatic_rings,
                 err, rings_found, rings_kept, ring_is_flat_calls,
                 get_aromatic_marker_calls, structure_trace, sweep_trace>>

AssignSecondaryStructure ==
  /\ pc = "assign_secondary_structure" /\ err = "none"
  /\ \E r \in {assign_secondary_structure(all_atoms)} :
       /\ all_atoms' = r.atoms
       /\ structure_trace' = r.trace
       /\ sweep_trace' = r.sweeps
       /\ err' = r.err
       /\ pc' = IF r.err = "none" THEN "returned" ELSE pc
  /\ UNCHANGED <<residue_charge_runs,
                 pdbqt, conect, non_protein_atoms, aromatic_rings, charges,
                 rings_found, rings_kept, ring_is_flat_calls,
                 get_aromatic_marker_calls>>

Next ==
  \/ LoadAtoms
  \/ LoadBonds
  \/ CheckProteinFormat
  \/ AssignNonProteinAromaticRings
  \/ AssignProteinAromaticRings
  \/ AssignNonProteinCharges
  \/ AssignProteinCharges
  \/ AssignSecondaryStructure

\* The methods in the order load_from_files calls them.
Stages == <<"load_atoms_from_PDBQT", "load_bonds_from_PDB", "check_protein_format",
            "assign_non_protein_aromatic_rings", "assign_protein_aromatic_rings",
            "assign_non_protein_charges", "assign_protein_charges",
            "assign_secondary_structure", "returned">>

StageNo(name) == CHOOSE k \in DOMAIN Stages : Stages[k] = name

\* The method has been called: it returned, or it is the one that raised.
Called(method) ==
  \/ StageNo(pc) > StageNo(method)
  \/ pc = method /\ err # "none"

\* The method was called and returned.
Returned(method) == StageNo(pc) > StageNo(method)

----------------------------------------------------------------------------
(* Input files *)

Line(atomname, residue, resid, chain, element, coordinates, tors, ang) ==
  [atomname |-> atomname, residue |-> residue, resid |-> resid, chain |-> chain,
   element |-> element, coordinates |-> coordinates, tors |-> tors, ang |-> ang]

\* The neighbours of atom i under the bonds E (a set of two-atom sets), in
\* increasing order.
NeighboursIn(E, i, n) ==
  SelectSeq([j \in 1..n |-> j], LAMBDA j : j # i /\ {i, j} \in E)

\* CONECT lines that declare the bonds E in both directions, four bonded
\* atoms to a line at most.
RECURSIVE ConectChunks(_, _)
ConectChunks(i, bonded) ==
  IF bonded = <<>> THEN <<>>
  ELSE IF Len(bonded) <= 4
    THEN <<[long |-> TRUE, atom_index |-> i, bonded |-> bonded]>>
  ELSE <<[long |-> TRUE, atom_index |-> i, bonded |-> SubSeq(bonded, 1, 4)]>>
       \o ConectChunks(i, SubSeq(bonded, 5, Len(bonded)))

ConectOf(E, n) == Concat([i \in 1..n |-> ConectChunks(i, NeighboursIn(E, i, n))])

LIG == <<"L","I","G">>
ALA == <<"A","L","A">>

----------------------------------------------------------------------------
(* Ligands with a ring *)

MinRing == 3
MaxRing == 7

\* The angles an atom out of the plane is given: on the two bounds of the
\* test, and inside them.
TiltAngles == {15, 16, -100, 165}

\* The ring atoms in ring order: 1..k, or with atoms 2 and 3 exchanged, so
\* that the ring order is not the index order.
RingOrder(k, twist) ==
  [p \in 1..k |-> IF twist /\ p = 2 THEN 3 ELSE IF twist /\ p = 3 THEN 2 ELSE p]

RingBonds(k, twist) ==
  LET o == RingOrder(k, twist)
  IN {{o[p], o[(p % k) + 1]} : p \in 1..k}

\* What is attached to the ring: nothing; one atom on ring atom 1; one atom
\* bridging ring atoms 1 and 2; two atoms on ring atom 1; one atom bridging
\* the first and third atom of the ring.
ExtraKinds == {"none", "substituent", "bridge", "two", "span"}

ExtraAtoms(kind) == IF kind = "none" THEN 0 ELSE IF kind = "two" THEN 2 ELSE 1

ExtraBonds(k, twist, kind) ==
  LET o == RingOrder(k, twist) IN
  CASE kind = "none" -> {}
    [] kind = "substituent" -> {{o[1], k + 1}}
    [] kind = "bridge" -> {{o[1], k + 1}, {o[2], k + 1}}
    [] kind = "two" -> {{o[1], k + 1}, {o[1], k + 2}}
    [] kind = "span" -> {{o[1], k + 1}, {o[3], k + 1}}

RingInput(k, twist, kind, first_element, tilted, tilt) ==
  LET n == k + ExtraAtoms(kind)
      E == RingBonds(k, twist) \cup ExtraBonds(k, twist, kind)
  IN [pdbqt |-> [i \in 1..n |->
                   Line("X", LIG, 1, "A", IF i = 1 THEN first_element ELSE "C",
                        <<i, i * i, 1>>,
                        IF i = tilted THEN tilt ELSE IF i % 2 = 0 THEN 180 ELSE 0,
                        120)],
      conect |-> ConectOf(E, n)]

InitRing ==
  \E k \in MinRing..MaxRing, twist \in BOOLEAN, kind \in ExtraKinds,
     e \in {"C", "N"}, t \in {<<0, 0>>} \cup ((1..(MaxRing + 2)) \X TiltAngles) :
    LET in == RingInput(k, twist, kind, e, t[1], t[2])
    IN Fresh(in.pdbqt, in.conect)

SpecRing == InitRing /\ [][Next]_vars

\* The ligand is one ring of six carbons and, at most, atoms attached to it
\* that close no further ring; every torsion the flatness test can measure
\* (at a ring atom, at an atom bonded to a ring atom) is within 15 degrees of
\* 0 or 180, and no ring carbon has 4 neighbours.
PlanarCarbonSixRing ==
  /\ Len(all_atoms) >= 6
  /\ \E ring \in ToSet(rings_found) :
       /\ Len(ring) = 6
       /\ \A r \in ToSet(rings_found) : ToSet(r) = ToSet(ring)
       /\ \A a \in ToSet(ring) :
            /\ all_atoms[a].element = "C"
            /\ number_of_neighbors(all_atoms[a]) # 4
            /\ ~ not_flat_angle(all_atoms[a].tors)
            /\ \A b \in ToSet(all_atoms[a].indices_of_atoms_connecting) :
                 ~ not_flat_angle(all_atoms[b].tors)

\* C1: for a ligand that is a planar 6-membered carbon ring with no ring
\* carbon of 4 neighbours, assign_non_protein_aromatic_rings appends exactly
\* one aromatic marker, whose members are the 6 ring atoms.
C1_PlanarRingMarked ==
  (Called("assign_non_protein_aromatic_rings") /\ PlanarCarbonSixRing) =>
    /\ Returned("assign_non_protein_aromatic_rings")
    /\ Len(aromatic_rings) = 1
    /\ \E ring \in ToSet(rings_found) :
         ToSet(aromatic_rings[1].indices) = ToSet(ring)

\* C10: every ring handed to ring_is_flat or to get_aromatic_marker by
\* assign_non_protein_aromatic_rings, and every ring of a marker it appends,
\* has exactly 5 or 6 member indices.
C10_OnlyFiveOrSix ==
  /\ \A i \in DOMAIN ring_is_flat_calls : Len(ring_is_flat_calls[i]) \in {5, 6}
  /\ \A i \in DOMAIN get_aromatic_marker_calls :
       Len(get_aromatic_marker_calls[i]) \in {5, 6}
  /\ (pc = "assign_protein_aromatic_rings" =>
        \A i \in DOMAIN aromatic_rings : Len(aromatic_rings[i].indices) \in {5, 6})

\* The search found a ring of 5 or 6 atoms and a ring of another size that
\* remove_redundant_rings kept: the first reached ring_is_flat, the second
\* did not.
C10_Witness ==
  /\ Called("assign_non_protein_aromatic_rings")
  /\ \E i \in DOMAIN rings_kept : Len(rings_kept[i]) \notin {5, 6}
  /\ \E i \in DOMAIN rings_kept : Contains(ring_is_flat_calls, rings_kept[i])

----------------------------------------------------------------------------
(* Ligands with one centre atom, and single residues *)

MaxNeighbours == 4
MaxResAtoms == 3

\* A centre atom (index 1) bonded to neighbours 2..m+1; tail is the element
\* of one more atom bonded to the first neighbour, or "none".
StarInput(centre, elements, tail, ang) ==
  LET m == Len(elements)
      with_tail == tail # "none" /\ m >= 1
      n == 1 + m + (IF with_tail THEN 1 ELSE 0)
      E == {{1, j + 1} : j \in 1..m} \cup (IF with_tail THEN {{2, n}} ELSE {})
  IN [pdbqt |-> [i \in 1..n |->
                   Line("X", LIG, 1, "A",
                        IF i = 1 THEN centre
                        ELSE IF i <= m + 1 THEN elements[i - 1] ELSE tail,
                        <<i, i * i, 1>>, 0, ang)],
      conect |-> ConectOf(E, n)]

\* The rules of the residue helper: accepted names and the atom names
\* that are averaged.
residue_charge_rules ==
  << [resnames |-> {LYS, LYN}, charged_atomnames |-> <<"NZ">>],
     [resnames |-> {ARG}, charged_atomnames |-> <<"NH1", "NH2">>],
     [resnames |-> {HIS, HID, HIE, HIP}, charged_atomnames |-> <<"NE2", "ND1">>],
     [resnames |-> {GLU, GLH, GLX}, charged_atomnames |-> <<"OE1", "OE2">>],
     [resnames |-> {ASP, ASH, ASX}, charged_atomnames |-> <<"OD1", "OD2">>] >>

\* The residue names tried, and for each the atom names its atoms are
\* drawn from (with the element of each).
ResidueNames == {LYS, ARG, GLU, <<"X","A","R","G">>, <<"H","O","H">>}

AtomPool(name) ==
  IF LastN(name, 3) = LYS THEN {<<"NZ", "N">>, <<"HZ1", "H">>, <<"CE", "C">>}
  ELSE IF LastN(name, 3) = GLU THEN {<<"OE1", "O">>, <<"OE2", "O">>, <<"CD", "C">>}
  ELSE {<<"NH1", "N">>, <<"NH2", "N">>, <<"CZ", "C">>}

\* One residue; picks is a sequence of <<name and element, x coordinate>>.
ResidueInput(name, picks) ==
  [pdbqt |-> [i \in 1..Len(picks) |->
                Line(picks[i][1][1], name, 1, "A", picks[i][1][2],
                     <<picks[i][2], 0, 0>>, 0, 0)],
   conect |-> <<>>]

InitCharge ==
  \/ \E centre \in {"C", "N", "P", "S", "ZN"}, m \in 0..MaxNeighbours,
        tail \in {"none", "C"}, ang \in {109, 120} :
       \E elements \in [1..m -> {"O", "N", "H"}] :
         LET in == StarInput(centre, elements, tail, ang)
         IN Fresh(in.pdbqt, in.conect)
  \/ \E name \in ResidueNames :
       \E picks \in SeqsUpTo(AtomPool(name) \X {-1, 1}, MaxResAtoms) :
         LET in == ResidueInput(name, picks)
         IN Fresh(in.pdbqt, in.conect)

SpecCharge == InitCharge /\ [][Next]_vars

\* Every bonded index of every atom is a key of all_atoms.
BondsResolve ==
  \A i \in DOMAIN all_atoms :
    ToSet(all_atoms[i].indices_of_atoms_connecting) \subseteq DOMAIN all_atoms

\* C5: on a graph whose bonded-index lists reference only keys of all_atoms,
\* every Charged record in charges has a non-empty member-index list whose
\* members are all keys of all_atoms.
C5_MembersResolve ==
  BondsResolve =>
    \A k \in DOMAIN charges :
      /\ charges[k].indices # <<>>
      /\ ToSet(charges[k].indices) \subseteq DOMAIN all_atoms

\* Both charge passes returned; a record with several members was appended,
\* or the record of a lysine.
C5_Witness ==
  /\ Returned("assign_protein_charges")
  /\ \E k \in DOMAIN charges :
       \/ Len(charges[k].indices) >= 3
       \/ LastN(all_atoms[charges[k].indices[1]].residue, 3) = LYS

\* The atoms of the residue with this key, and what the rule that accepts
\* the residue's name asks of them.
AcceptedBy(rule, key) == LastN(key[1], 3) \in rule.resnames

AnchorNamesPresent(rule, res) ==
  \A q \in DOMAIN rule.charged_atomnames :
    \E j \in DOMAIN res : all_atoms[res[j]].atomname = rule.charged_atomnames[q]

AnchorNonZero(rule, res) ==
  LET anchors == SelectSeq(res, LAMBDA i :
                   Contains(rule.charged_atomnames, all_atoms[i].atomname))
  IN nonzero_magnitude(
       average_point([j \in 1..Len(anchors) |-> all_atoms[anchors[j]].coordinates]))

\* The residue has a record in charges: one whose members are the residue's.
Contributes(res) ==
  \E k \in DOMAIN charges :
    /\ charges[k].indices # <<>>
    /\ ToSet(charges[k].indices) \subseteq ToSet(res)

\* C6: a residue whose name a residue charge rule accepts contributes a
\* Charged record only if every anchor atom name of the rule is present
\* among its atoms and the averaged anchor point is not the origin; in every
\* other case it contributes no record, and no error is raised.
C6_OnlyWithEveryAnchor ==
  Called("assign_protein_charges") =>
    /\ Returned("assign_protein_charges")
    /\ LET residues == get_residues(all_atoms) IN
       \A r \in DOMAIN residue_charge_rules, k \in DOMAIN residues :
         LET rule == residue_charge_rules[r] IN
         (AcceptedBy(rule, residues[k].key) /\ Contributes(residues[k].res)) =>
           /\ AnchorNamesPresent(rule, residues[k].res)
           /\ AnchorNonZero(rule, residues[k].res)

\* The oxygens bonded to carbon c, when c is a ligand carbon with exactly two
\* of them, each with c as its only heavy neighbour.
IsLigandCarbonWithTwoOxygens(c) ==
  /\ c \in non_protein_atoms
  /\ all_atoms[c].element = "C"
  /\ LET oxygens == connected_atoms_of_given_element(all_atoms, c, "O") IN
       /\ Len(oxygens) = 2
       /\ \A q \in 1..2 : connected_heavy_atoms(all_atoms, oxygens[q]) = <<c>>

\* charges holds exactly one record with c as its second member, and it is
\* negative, lists oxygen, carbon, oxygen, and lies at the oxygens' average.
OneCarboxylateRecord(c) ==
  LET oxygens == connected_atoms_of_given_element(all_atoms, c, "O")
      mine == {k \in DOMAIN charges :
                 Len(charges[k].indices) >= 2 /\ charges[k].indices[2] = c
                 /\ ~ charges[k].positive}
  IN /\ Cardinality(mine) = 1
     /\ \A k \in mine :
          /\ charges[k].indices = <<oxygens[1], c, oxygens[2]>>
          /\ charges[k].coordinates =
               average_point(<<all_atoms[oxygens[1]].coordinates,
                               all_atoms[oxygens[2]].coordinates>>)

\* C7 as stated: every non-protein carbon bonded to 2 oxygens, each with
\* that carbon as its only heavy-atom neighbour, gets exactly one negative
\* Charged record [oxygen1, carbon, oxygen2] anchored at the oxygens' average.
C7_AnyCarbonWithTwoOxygens ==
  Returned("assign_non_protein_charges") =>
    \A c \in DOMAIN all_atoms :
      IsLigandCarbonWithTwoOxygens(c) => OneCarboxylateRecord(c)

\* C7, amended: the same for every such carbon that has exactly 3 bonded
\* neighbours.
C7_ThreeNeighbourCarbon ==
  Returned("assign_non_protein_charges") =>
    \A c \in DOMAIN all_atoms :
      (IsLigandCarbonWithTwoOxygens(c) /\ number_of_neighbors(all_atoms[c]) = 3)
        => OneCarboxylateRecord(c)

C7_Witness ==
  /\ Returned("assign_non_protein_charges")
  /\ \E c \in DOMAIN all_atoms :
       /\ IsLigandCarbonWithTwoOxygens(c)
       /\ number_of_neighbors(all_atoms[c]) = 3
       /\ OneCarboxylateRecord(c)

\* C8: every non-protein nitrogen with exactly 4 bonded neighbours gets
\* exactly one Charged record: positive, anchored at the nitrogen, with 5
\* members, the nitrogen first and then its neighbours in bonded-list order;
\* the 3-neighbour test adds no second record for it.
C8_QuaternaryNitrogen ==
  Returned("assign_non_protein_charges") =>
    \A n \in non_protein_atoms :
      (all_atoms[n].element = "N" /\ number_of_neighbors(all_atoms[n]) = 4) =>
        LET mine == {k \in DOMAIN charges : charges[k].indices[1] = n} IN
          /\ Cardinality(mine) = 1
          /\ \A k \in mine :
               /\ charges[k].positive
               /\ charges[k].coordinates = Pt(all_atoms[n].coordinates)
               /\ Len(charges[k].indices) = 5
               /\ charges[k].indices =
                    <<n>> \o all_atoms[n].indices_of_atoms_connecting

C8_Witness ==
  /\ Returned("assign_non_protein_charges")
  /\ \E n \in non_protein_atoms :
       /\ all_atoms[n].element = "N"
       /\ number_of_neighbors(all_atoms[n]) = 4
       /\ \E k \in DOMAIN charges : charges[k].indices[1] = n

----------------------------------------------------------------------------
(* Protein chains *)

MaxResidues == 5

\* The torsions a residue is given: phi and psi of a helix, of a strand, of
\* neither.
Torsions == {<<-60, -45>>, <<-120, 120>>, <<60, 60>>}

\* What departs from a plain chain of residues numbered 1, 2, ... on chain A
\* with alpha-carbons 1 apart: alpha-carbons 10 apart; no residue 3 in the
\* numbering; chain B from the third residue on; residue 2, or residue 4,
\* with a second O in place of C; a side-chain atom in every residue; a
\* ligand atom that shares number and chain with residue 2.
ChainKinds == {"plain", "far", "gap", "chain", "noC", "noC4", "sidechain", "hetero"}

BackboneNames == <<"N", "CA", "C", "O">>

\* The atoms of residue j.  phi of the pair (j-1, j) is measured at this
\* residue's C, psi at its N.
ResidueLines(j, kind, torsion) ==
  LET resid == IF kind = "gap" /\ j >= 3 THEN j + 1 ELSE j
      chain == IF kind = "chain" /\ j >= 3 THEN "B" ELSE "A"
      step == IF kind = "far" THEN 10 ELSE 1
      backbone == [a \in 1..4 |->
        Line(IF a = 3 /\ ((kind = "noC" /\ j = 2) \/ (kind = "noC4" /\ j = 4))
               THEN "O" ELSE BackboneNames[a],
             ALA, resid, chain,
             IF a = 1 THEN "N" ELSE IF a = 4 THEN "O" ELSE "C",
             <<step * j, 0, 0>>,
             IF a = 3 THEN torsion[1] ELSE IF a = 1 THEN torsion[2] ELSE 0,
             0)]
  IN backbone
     \o (IF kind = "sidechain"
           THEN <<Line("CB", ALA, resid, chain, "C", <<step * j, 1, 0>>, 0, 0)>>
           ELSE <<>>)
     \o (IF kind = "hetero" /\ j = 2
           THEN <<Line("X", LIG, resid, chain, "C", <<step * j, 2, 0>>, 0, 0)>>
           ELSE <<>>)

ChainInput(kind, torsions) ==
  [pdbqt |-> Concat([j \in 1..Len(torsions) |-> ResidueLines(j, kind, torsions[j])]),
   conect |-> <<>>]

InitProtein ==
  \E kind \in ChainKinds, R \in 1..MaxResidues :
    \E torsions \in [1..R -> Torsions] :
      LET in == ChainInput(kind, torsions)
      IN Fresh(in.pdbqt, in.conect)

SpecProtein == InitProtein /\ [][Next]_vars

\* The backbone atoms are exactly 8: 4 of one residue, then 4 of the next
\* one on the same chain, with phi = -60 and psi = -45 between them.
EightBackboneAtomsOfAHelix ==
  LET backbone == SelectSeq([i \in 1..Len(all_atoms) |-> i],
                    LAMBDA i : side_chain_or_backbone(all_atoms[i]) = "BACKBONE")
  IN /\ Len(backbone) = 8
     /\ \A q \in 1..4 :
          /\ all_atoms[backbone[q]].atomname = BackboneNames[q]
          /\ all_atoms[backbone[q + 4]].atomname = BackboneNames[q]
          /\ all_atoms[backbone[q]].resid = all_atoms[backbone[1]].resid
          /\ all_atoms[backbone[q + 4]].resid = all_atoms[backbone[1]].resid + 1
          /\ all_atoms[backbone[q]].chain = all_atoms[backbone[q + 4]].chain
     /\ dihedral(all_atoms, backbone[3], backbone[5], backbone[6], backbone[7]) = -60
     /\ dihedral(all_atoms, backbone[1], backbone[2], backbone[3], backbone[5]) = -45

\* C2: when the backbone atoms are exactly 8 consecutive atoms, 4 of residue
\* r and then 4 of residue r+1 on the same chain, with phi = -60 and
\* psi = -45, get_structure_dict returns and labels both residues ALPHA: the
\* labels written before the clean-up loops are ALPHA on every backbone atom.
C2_EightAtomsAlpha ==
  (Called("assign_secondary_structure") /\ EightBackboneAtomsOfAHelix) =>
    /\ structure_trace # <<>>
    /\ \A i \in DOMAIN all_atoms :
         side_chain_or_backbone(all_atoms[i]) = "BACKBONE"
           => structure_trace[1][i] = "ALPHA"

\* Every label is one of the three, and atoms with one residue key have one
\* label.
LabelsAgree(labels) ==
  \A i \in DOMAIN labels :
    /\ labels[i] \in {"ALPHA", "BETA", "OTHER"}
    /\ \A j \in DOMAIN labels :
         \/ labels[i] = labels[j]
         \/ residue_key(all_atoms[i]) # residue_key(all_atoms[j])

\* C4: after assign_secondary_structure returns, every atom's label is one
\* of ALPHA, BETA, OTHER and atoms with the same residue key (name, number,
\* chain) carry the same label; the same holds for the labels left by every
\* set_structure_of_residue call of the clean-up loops.
C4_LabelsPerResidue ==
  Returned("assign_secondary_structure") =>
    /\ LabelsAgree(labels_of(all_atoms))
    /\ \A t \in DOMAIN structure_trace : LabelsAgree(structure_trace[t])

\* The clean-up loops called set_structure_of_residue on a residue of
\* several atoms that the dict had labelled ALPHA or BETA.
C4_Witness ==
  /\ Returned("assign_secondary_structure")
  /\ Len(structure_trace) >= 2
  /\ \E i \in DOMAIN all_atoms :
       /\ structure_trace[1][i] \in {"ALPHA", "BETA"}
       /\ structure_trace[2][i] = "OTHER"
       /\ all_atoms[i].atomname # "CA"

----------------------------------------------------------------------------
(* Bond files with indices that name no atom *)

MaxConect == 2

\* A metal ion and the amine nitrogen of a lysine: every charge pass has a
\* record to append.
TwoAtoms ==
  << Line("ZN", <<"Z","N">>, 1, "A", "ZN", <<1, 1, 1>>, 0, 0),
     Line("NZ", LYS, 2, "A", "N", <<2, 4, 1>>, 0, 0) >>

BondedLists == {<<>>, <<1>>, <<2>>, <<3>>, <<1, 2>>, <<2, 1>>, <<2, 3>>, <<3, 1>>}

\* A line shorter than 31 characters, or a full line: an atom index and the
\* bonded indices, of which 3 names no atom.
ConectRecords ==
  {[long |-> FALSE, atom_index |-> 1, bonded |-> <<>>]}
  \cup {[long |-> TRUE, atom_index |-> a, bonded |-> b] :
          a \in 1..(Len(TwoAtoms) + 1), b \in BondedLists}

InitLoad == \E records \in SeqsUpTo(ConectRecords, MaxConect) : Fresh(TwoAtoms, records)

SpecLoad == InitLoad /\ [][Next]_vars

\* Some CONECT record names an atom index or a bonded index that is no key
\* of the atoms loaded.
NamesUnknownIndex ==
  \E k \in DOMAIN conect :
    \/ conect[k].atom_index \notin 1..Len(pdbqt)
    \/ \E q \in DOMAIN conect[k].bonded : conect[k].bonded[q] \notin 1..Len(pdbqt)

\* C9: if a CONECT record names an atom index or a bonded index that is not
\* a key of all_atoms, the call of load_bonds_from_PDB raises ValueError, and
\* no analysis runs: load_from_files never gets past load_bonds_from_PDB,
\* aromatic_rings and charges stay empty and no structure label is written.
C9_UnknownIndexStopsLoading ==
  /\ [](NamesUnknownIndex =>
          /\ pc \in {"load_atoms_from_PDBQT", "load_bonds_from_PDB"}
          /\ err \in {"none", "ValueError"}
          /\ aromatic_rings = <<>>
          /\ charges = <<>>
          /\ structure_trace = <<>>
          /\ \A i \in DOMAIN all_atoms : all_atoms[i].structure = "OTHER")
  /\ [][(NamesUnknownIndex /\ pc = "load_bonds_from_PDB")
          => (err' = "ValueError" /\ pc' = pc)]_vars

C9_Witness ==
  /\ NamesUnknownIndex
  /\ pc = "load_bonds_from_PDB"
  /\ err = "ValueError"
  /\ \A k \in DOMAIN conect : conect[k].long /\ conect[k].atom_index \in DOMAIN all_atoms

----------------------------------------------------------------------------
(* The function on its own: any list of rings *)

MaxRRAtom == 2
MaxRRLen == 2
MaxRRLists == 2

NoAtoms == <<>>

InitRedundant ==
  /\ pdbqt = <<>>
  /\ conect = <<>>
  /\ all_atoms = NoAtoms
  /\ non_protein_atoms = {}
  /\ aromatic_rings = <<>>
  /\ charges = <<>>
  /\ pc = "remove_redundant_rings"
  /\ err = "none"
  /\ rings_found \in SeqsUpTo(SeqsUpTo(1..MaxRRAtom, MaxRRLen), MaxRRLists)
  /\ rings_kept = <<>>
  /\ ring_is_flat_calls = <<>>
  /\ get_aromatic_marker_calls = <<>>
  /\ structure_trace = <<>>
  /\ residue_charge_runs = <<>>
  /\ sweep_trace = <<>>

CallRemoveRedundantRings ==
  /\ pc = "remove_redundant_rings"
  /\ \E listed \in Orderings(ring_strings(rings_found)) :
       rings_kept' = remove_redundant_rings(rings_found, listed)
  /\ pc' = "returned"
  /\ UNCHANGED <<residue_charge_runs, sweep_trace,
                 pdbqt, conect, all_atoms, non_protein_atoms, aromatic_rings,
                 charges, err, rings_found, ring_is_flat_calls,
                 get_aromatic_marker_calls, structure_trace>>

NextRedundant == CallRemoveRedundantRings

SpecRedundant == InitRedundant /\ [][NextRedundant]_vars

\* C3: the list remove_redundant_rings returns is minimal: no returned ring's
\* member set is a proper superset of another returned ring's, no returned ring
\* is empty, and no two returned rings have the same member set.
C3_Minimal ==
  pc = "returned" =>
    /\ \A i \in DOMAIN rings_kept : rings_kept[i] # <<>>
    /\ \A i, j \in DOMAIN rings_kept :
         i # j => ~ (ToSet(rings_kept[j]) \subseteq ToSet(rings_kept[i]))

\* Two rings one of which contains the other went in, and one came out.
C3_Witness ==
  /\ pc = "returned"
  /\ Len(rings_kept) = 1
  /\ \E i, j \in DOMAIN rings_found :
       /\ rings_found[i] # <<>>
       /\ ToSet(rings_found[i]) \subseteq ToSet(rings_found[j])
       /\ ToSet(rings_found[i]) # ToSet(rings_found[j])
       /\ ToSet(rings_kept[1]) = ToSet(rings_found[i])

----------------------------------------------------------------------------
(* get_aromatic_marker on its own: any list of indices *)

MaxMarkerAtom == 3
MaxMarkerLen == 4

\* Carbons of one ligand, on a line.
MarkerAtoms ==
  [i \in 1..MaxMarkerAtom |-> Line("C", LIG, 1, "A", "C", <<i, 0, 0>>, 0, 0)]

\* The list the caller passes is the one entry of rings_found.  The index
\* MaxMarkerAtom + 1 is no key of all_atoms.
InitMarker ==
  /\ pdbqt = MarkerAtoms
  /\ conect = <<>>
  /\ all_atoms = load_atoms_from_PDBQT(MarkerAtoms)
  /\ non_protein_atoms = non_protein_keys(all_atoms)
  /\ aromatic_rings = <<>>
  /\ charges = <<>>
  /\ pc = "get_aromatic_marker"
  /\ err = "none"
  /\ \E indices_of_ring \in SeqsUpTo(1..(MaxMarkerAtom + 1), MaxMarkerLen) :
       rings_found = <<indices_of_ring>>
  /\ rings_kept = <<>>
  /\ ring_is_flat_calls = <<>>
  /\ get_aromatic_marker_calls = <<>>
  /\ structure_trace = <<>>
  /\ residue_charge_runs = <<>>
  /\ sweep_trace = <<>>

CallGetAromaticMarker ==
  /\ pc = "get_aromatic_marker" /\ err = "none"
  /\ \E r \in {get_aromatic_marker(all_atoms, rings_found[1])} :
       /\ get_aromatic_marker_calls' = <<rings_found[1]>>
       /\ aromatic_rings' = IF r.err = "none" THEN <<r.marker>> ELSE <<>>
       /\ err' = r.err
       /\ pc' = IF r.err = "none" THEN "returned" ELSE pc
  /\ UNCHANGED <<residue_charge_runs, sweep_trace,
                 pdbqt, conect, all_atoms, non_protein_atoms, charges,
                 rings_found, rings_kept, ring_is_flat_calls, structure_trace>>

NextMarker == CallGetAromaticMarker

SpecMarker == InitMarker /\ [][NextMarker]_vars

\* The call of get_aromatic_marker is over: it returned or it raised.
MarkerCallOver == get_aromatic_marker_calls # <<>>

NamesAtomsOnly(indices) == \A k \in DOMAIN indices : indices[k] \in DOMAIN all_atoms

\* C11: given a list of atom indices, get_aromatic_marker raises ValueError
\* and returns no marker exactly when the list has fewer than 3 entries (0, 1
\* or 2); given 3 or more it returns one marker whose member list is the list
\* given, entry for entry.
C11_ValueErrorBelowThree ==
  (MarkerCallOver /\ NamesAtomsOnly(rings_found[1])) =>
    /\ (err = "ValueError") <=> (Len(rings_found[1]) < 3)
    /\ (err = "ValueError") => (aromatic_rings = <<>> /\ pc = "get_aromatic_marker")
    /\ Len(rings_found[1]) >= 3 =>
         /\ err = "none"
         /\ pc = "returned"
         /\ Len(aromatic_rings) = 1
         /\ aromatic_rings[1].indices = rings_found[1]

\* A list of exactly 3 indices, not in increasing order, came back as given.
C11_Witness ==
  /\ MarkerCallOver
  /\ rings_found[1] = <<3, 1, 2>>
  /\ Len(aromatic_rings) = 1
  /\ aromatic_rings[1].indices = <<3, 1, 2>>

\* A list of 2 indices was refused.
C11_WitnessRaised ==
  /\ MarkerCallOver
  /\ Len(rings_found[1]) = 2
  /\ err = "ValueError"

----------------------------------------------------------------------------
(* Residues with ring atoms, some of them missing *)

MaxRingAtoms == 4

\* Residue names: three ring residues, a name that is a piece of "PHE", and a
\* residue without a ring.
AromaticNames == {PHE, HIS, TRP, <<"P","H">>, ALA}

RingAtomPool == {"CG", "CD2", "CE2", "CA"}

\* Residue 1 with the atoms named, in this order; with second, a
\* phenylalanine 2 with three of its ring atoms after it.
AromaticInput(name, names, second) ==
  [pdbqt |-> [i \in 1..Len(names) |->
                Line(names[i], name, 1, "A", "C", <<i, 0, 0>>, 0, 0)]
             \o (IF second
                   THEN [i \in 1..3 |->
                           Line(<<"CG", "CZ", "CD1">>[i], PHE, 2, "A", "C",
                                <<i, 1, 0>>, 0, 0)]
                   ELSE <<>>),
   conect |-> <<>>]

InitAromatic ==
  \E name \in AromaticNames, second \in BOOLEAN :
    \E names \in SeqsUpTo(RingAtomPool, MaxRingAtoms) :
      LET in == AromaticInput(name, names, second)
      IN Fresh(in.pdbqt, in.conect)

SpecAromatic == InitAromatic /\ [][Next]_vars

\* The atoms of the residue whose names are in the rule's ring atom names.
MatchingAtoms(rule, res) ==
  SelectSeq(res, LAMBDA i : all_atoms[i].atomname \in rule.ring_atomnames)

\* What the five calls return on the atoms loaded.
ResidueAromatics ==
  [r \in DOMAIN residue_aromatic_rules |->
     get_residue_aromatics(all_atoms, get_residues(all_atoms),
                           residue_aromatic_rules[r].resname,
                           residue_aromatic_rules[r].ring_atomnames)]

\* C12: in each call of get_residue_aromatics, a residue whose name is
\* accepted gets exactly one marker when at least 3 of its atoms have names
\* in the ring atom-name set, and the marker's members are exactly those
\* atoms' indices; with fewer than 3 such atoms the residue gets no marker.
\* No call raises, and aromatic_rings receives what the calls return.
C12_OneMarkerFromThreeAtoms ==
  Called("assign_protein_aromatic_rings") =>
    /\ Returned("assign_protein_aromatic_rings")
    /\ err = "none"
    /\ LET residues == get_residues(all_atoms)
           out == ResidueAromatics
       IN /\ aromatic_rings = Concat(out)
          /\ \A r \in DOMAIN residue_aromatic_rules, k \in DOMAIN residues :
               LET rule == residue_aromatic_rules[r]
                   match == MatchingAtoms(rule, residues[k].res)
                   mine == {m \in DOMAIN out[r] :
                              ToSet(out[r][m].indices) \subseteq ToSet(residues[k].res)}
               IN python_in(residues[k].key[1], rule.resname) =>
                    IF Len(match) >= 3
                      THEN /\ Cardinality(mine) = 1
                           /\ \A m \in mine : out[r][m].indices = match
                      ELSE mine = {}

\* A tryptophan with exactly 3 atoms of its small ring, 2 of which are all
\* it has of its large ring: one marker, of the 3.
C12_Witness ==
  /\ Returned("assign_protein_aromatic_rings")
  /\ \E i \in DOMAIN all_atoms : all_atoms[i].residue = TRP
  /\ Len(aromatic_rings) = 1
  /\ Len(aromatic_rings[1].indices) = 3
  /\ Cardinality({i \in DOMAIN all_atoms : all_atoms[i].atomname \in {"CE2", "CD2"}}) = 2

----------------------------------------------------------------------------
(* Residue charge detection run a second time *)

\* A glutamate 2 with both carboxylate oxygens.
OneGlutamate ==
  << Line("OE1", GLU, 2, "A", "O", <<1, 1, 0>>, 0, 0),
     Line("OE2", GLU, 2, "A", "O", <<1, 2, 0>>, 0, 0) >>

\* The glutamate before or after a residue 1 of the residue family.
InitTwice ==
  \E name \in ResidueNames, glutamate_first \in BOOLEAN :
    \E picks \in SeqsUpTo(AtomPool(name) \X {-1, 1}, MaxResAtoms) :
      LET in == ResidueInput(name, picks)
      IN Fresh(IF glutamate_first THEN OneGlutamate \o in.pdbqt
                                  ELSE in.pdbqt \o OneGlutamate, in.conect)

\* A caller runs the detectors once more, at any moment after the run of
\* load_from_files: self.charges is extended again, all_atoms is as it was.
AssignProteinChargesAgain ==
  /\ Returned("assign_protein_charges") /\ err = "none"
  /\ Len(residue_charge_runs) = 1
  /\ \E r \in {residue_charge_detection(all_atoms, charges)} :
       /\ charges' = charges \o r
       /\ residue_charge_runs' = Append(residue_charge_runs, r)
  /\ UNCHANGED <<pdbqt, conect, all_atoms, non_protein_atoms, aromatic_rings,
                 pc, err, rings_found, rings_kept, ring_is_flat_calls,
                 get_aromatic_marker_calls, structure_trace, sweep_trace>>

NextTwice ==
  \/ LoadAtoms
  \/ LoadBonds
  \/ CheckProteinFormat
  \/ AssignNonProteinAromaticRings
  \/ AssignProteinAromaticRings
  \/ AssignNonProteinCharges
  \/ AssignProteinCharges
  \/ AssignSecondaryStructure
  \/ AssignProteinChargesAgain

SpecTwice == InitTwice /\ [][NextTwice]_vars

----------------------------------------------------------------------------
(* The three analyses in any order *)

MaxAnyOrderResidues == 4

\* The analyses of load_from_files, each with its methods in their order.
Analyses ==
  << <<"assign_non_protein_aromatic_rings", "assign_protein_aromatic_rings">>,
     <<"assign_non_protein_charges", "assign_protein_charges">>,
     <<"assign_secondary_structure">> >>

\* The graph as load_atoms_from_PDBQT and load_bonds_from_PDB build it.
LoadedGraph(lines, records) ==
  load_bonds_from_PDB(load_atoms_from_PDBQT(lines), records).atoms

\* Here pc is the sequence of the analysis methods called so far.
Loaded(lines, records) ==
  /\ pdbqt = lines
  /\ conect = records
  /\ all_atoms = LoadedGraph(lines, records)
  /\ non_protein_atoms = non_protein_keys(all_atoms)
  /\ aromatic_rings = <<>>
  /\ charges = <<>>
  /\ pc = <<>>
  /\ err = "none"
  /\ rings_found = <<>>
  /\ rings_kept = <<>>
  /\ ring_is_flat_calls = <<>>
  /\ get_aromatic_marker_calls = <<>>
  /\ structure_trace = <<>>
  /\ residue_charge_runs = <<>>
  /\ sweep_trace = <<>>

\* A ligand ring, with a metal ion after it or without; or a chain of
\* residues.
InitAnyOrder ==
  \/ \E k \in MinRing..MaxRing, twist \in BOOLEAN, kind \in {"none", "two"},
        e \in {"C", "N"}, tilt \in {0, 16}, ion \in BOOLEAN :
       LET in == RingInput(k, twist, kind, e, 2, tilt)
       IN Loaded(in.pdbqt \o (IF ion
                    THEN <<Line("ZN", <<"Z","N">>, 2, "A", "ZN", <<1, 1, 5>>, 0, 0)>>
                    ELSE <<>>), in.conect)
  \/ \E kind \in {"plain", "hetero"}, R \in 3..MaxAnyOrderResidues :
       \E torsions \in [1..R -> Torsions] :
         LET in == ChainInput(kind, torsions)
         IN Loaded(in.pdbqt, in.conect)

\* A method can be called when nothing has raised, it has not been called,
\* and the methods before it in its own analysis have been.
CanRun(method) ==
  /\ err = "none"
  /\ ~ Contains(pc, method)
  /\ \A a \in DOMAIN Analyses : \A q \in DOMAIN Analyses[a] :
       Analyses[a][q] = method =>
         \A before \in 1..(q - 1) : Contains(pc, Analyses[a][before])

AnyAssignNonProteinAromaticRings ==
  /\ CanRun("assign_non_protein_aromatic_rings")
  /\ \E found \in {ligand_rings(all_atoms, non_protein_atoms)} :
     \E listed \in Orderings(ring_strings(found)) :
     \E r \in {assign_non_protein_aromatic_rings(all_atoms, non_protein_atoms,
                                                  found, listed)} :
         /\ rings_found' = found
         /\ rings_kept' = r.kept
         /\ ring_is_flat_calls' = r.flat_calls
         /\ get_aromatic_marker_calls' = get_aromatic_marker_calls \o r.marker_calls
         /\ aromatic_rings' = aromatic_rings \o r.markers
         /\ err' = r.err
  /\ pc' = Append(pc, "assign_non_protein_aromatic_rings")
  /\ UNCHANGED <<residue_charge_runs, sweep_trace,
                 pdbqt, conect, all_atoms, non_protein_atoms, charges,
                 structure_trace>>

AnyAssignProteinAromaticRings ==
  /\ CanRun("assign_protein_aromatic_rings")
  /\ \E r \in {assign_protein_aromatic_rings(all_atoms)} :
       /\ aromatic_rings' = aromatic_rings \o r.markers
       /\ get_aromatic_marker_calls' = get_aromatic_marker_calls \o r.calls
       /\ err' = r.err
  /\ pc' = Append(pc, "assign_protein_aromatic_rings")
  /\ UNCHANGED <<residue_charge_runs, sweep_trace,
                 pdbqt, conect, all_atoms, non_protein_atoms, charges,
                 rings_found, rings_kept, ring_is_flat_calls, structure_trace>>

AnyAssignNonProteinCharges ==
  /\ CanRun("assign_non_protein_charges")
  /\ charges' = charges \o assign_non_protein_charges(all_atoms, non_protein_atoms)
  /\ pc' = Append(pc, "assign_non_protein_charges")
  /\ UNCHANGED <<residue_charge_runs, sweep_trace,
                 pdbqt, conect, all_atoms, non_protein_atoms, aromatic_rings,
                 err, rings_found, rings_kept, ring_is_flat_calls,
                 get_aromatic_marker_calls, structure_trace>>

AnyAssignProteinCharges ==
  /\ CanRun("assign_protein_charges")
  /\ \E r \in {residue_charge_detection(all_atoms, charges)} :
       /\ charges' = charges \o r
       /\ residue_charge_runs' = Append(residue_charge_runs, r)
  /\ pc' = Append(pc, "assign_protein_charges")
  /\ UNCHANGED <<pdbqt, conect, all_atoms, non_protein_atoms, aromatic_rings,
                 err, rings_found, rings_kept, ring_is_flat_calls,
                 get_aromatic_marker_calls, structure_trace, sweep_trace>>

AnyAssignSecondaryStructure ==
  /\ CanRun("assign_secondary_structure")
  /\ \E r \in {assign_secondary_structure(all_atoms)} :
       /\ all_atoms' = r.atoms
       /\ structure_trace' = r.trace
       /\ sweep_trace' = r.sweeps
       /\ err' = r.err
  /\ pc' = Append(pc, "assign_secondary_structure")
  /\ UNCHANGED <<residue_charge_runs,
                 pdbqt, conect, non_protein_atoms, aromatic_rings, charges,
                 rings_found, rings_kept, ring_is_flat_calls,
                 get_aromatic_marker_calls>>

NextAnyOrder ==
  \/ AnyAssignNonProteinAromaticRings
  \/ AnyAssignProteinAromaticRings
  \/ AnyAssignNonProteinCharges
  \/ AnyAssignProteinCharges
  \/ AnyAssignSecondaryStructure

SpecAnyOrder == InitAnyOrder /\ [][NextAnyOrder]_vars

\* Lines 116-121 of load_from_files on a loaded graph, for one order in which
\* list(set(...)) yields the rings: what is left in aromatic_rings, in
\* charges and in the atoms' labels when the last call returns or a call
\* raises.
load_from_files(graph, listed) ==
  LET non_protein == non_protein_keys(graph)
      rings == assign_non_protein_aromatic_rings(
                 graph, non_protein, ligand_rings(graph, non_protein), listed)
      np_charges == assign_non_protein_charges(graph, non_protein)
      protein_rings == assign_protein_aromatic_rings(graph)
      labelled == assign_secondary_structure(graph)
  IN IF rings.err # "none"
       THEN [aromatic_rings |-> rings.markers, charges |-> <<>>,
             labels |-> labels_of(graph)]
     ELSE IF protein_rings.err # "none"
       THEN [aromatic_rings |-> rings.markers \o protein_rings.markers,
             charges |-> <<>>, labels |-> labels_of(graph)]
       ELSE [aromatic_rings |-> rings.markers \o protein_rings.markers,
             charges |-> np_charges \o residue_charge_detection(graph, np_charges),
             labels |-> labels_of(labelled.atoms)]

\* No further method can be called: all five were, or one raised.
AnyOrderOver == err # "none" \/ Len(pc) = 5

\* What the order of load_from_files leaves, for the input of this run.
SameAsLoadFromFiles ==
  LET graph == LoadedGraph(pdbqt, conect)
      found == ligand_rings(graph, non_protein_keys(graph))
  IN \E listed \in Orderings(ring_strings(found)) :
       LET left == load_from_files(graph, listed)
       IN /\ aromatic_rings = left.aromatic_rings
          /\ charges = left.charges
          /\ labels_of(all_atoms) = left.labels

\* C14: ring detection, charge detection and secondary-structure
\* classification run in any order or interleaving on the same graph leave
\* the same aromatic_rings, charges and labels as the order of
\* load_from_files leaves.
C14_AnyOrderSameAsLoadFromFiles == AnyOrderOver => SameAsLoadFromFiles

\* When no method raises, the order makes no difference.
C14_SameWhenNoneRaises == (AnyOrderOver /\ err = "none") => SameAsLoadFromFiles

----------------------------------------------------------------------------
(* The two clean-up loops on their own: any labels on a chain *)

MaxHelixResidues == 8

\* Alpha-carbons one unit apart, or ten; or with residue number 4 missing;
\* or with the first alpha-carbon far from the others; or with the residues
\* from the fifth on in a second chain.
HelixKinds == {"plain", "far", "gap", "bent", "chains"}

HelixLines(kind, n) ==
  [j \in 1..n |->
     Line("CA", ALA, IF kind = "gap" /\ j >= 4 THEN j + 1 ELSE j,
          IF kind = "chains" /\ j >= 5 THEN "B" ELSE "A", "C",
          <<IF kind = "far" THEN 10 * j
            ELSE IF kind = "bent" /\ j = 1 THEN -100 ELSE j, 0, 0>>, 0, 0)]

\* The labels of a chain: some residues carry one label, the others another.
HelixLabels(n) ==
  {[j \in 1..n |-> IF picks[j] THEN two[1] ELSE two[2]] :
     picks \in [1..n -> BOOLEAN],
     two \in {<<"ALPHA", "OTHER">>, <<"ALPHA", "BETA">>,
              <<"BETA", "OTHER">>, <<"BETA", "ALPHA">>}}

\* The atoms as assign_secondary_structure hands them to the loops: loaded,
\* and labelled.
InitHelix ==
  \E kind \in HelixKinds, n \in 1..MaxHelixResidues :
    \E labels \in HelixLabels(n) :
      /\ pdbqt = HelixLines(kind, n)
      /\ conect = <<>>
      /\ all_atoms = [j \in 1..n |->
                        [Atom(HelixLines(kind, n)[j]) EXCEPT !.structure = labels[j]]]
      /\ non_protein_atoms = {}
      /\ aromatic_rings = <<>>
      /\ charges = <<>>
      /\ pc = "process_alpha_helices"
      /\ err = "none"
      /\ rings_found = <<>>
      /\ rings_kept = <<>>
      /\ ring_is_flat_calls = <<>>
      /\ get_aromatic_marker_calls = <<>>
      /\ structure_trace = <<labels>>
      /\ residue_charge_runs = <<>>
      /\ sweep_trace = <<>>

CallProcessAlphaHelices ==
  /\ pc = "process_alpha_helices"
  /\ \E r \in {process_alpha_helices(
                  [atoms |-> all_atoms, trace |-> structure_trace,
                   change |-> TRUE, sweeps |-> sweep_trace],
                  alpha_carbons(all_atoms))} :
       /\ all_atoms' = r.atoms
       /\ structure_trace' = r.trace
       /\ sweep_trace' = r.sweeps
  /\ pc' = "process_beta_sheets"
  /\ UNCHANGED <<residue_charge_runs,
                 pdbqt, conect, non_protein_atoms, aromatic_rings, charges, err,
                 rings_found, rings_kept, ring_is_flat_calls,
                 get_aromatic_marker_calls>>

CallProcessBetaSheets ==
  /\ pc = "process_beta_sheets"
  /\ \E r \in {process_beta_sheets(
                  [atoms |-> all_atoms, trace |-> structure_trace,
                   change |-> TRUE, sweeps |-> sweep_trace],
                  alpha_carbons(all_atoms))} :
       /\ all_atoms' = r.atoms
       /\ structure_trace' = r.trace
       /\ sweep_trace' = r.sweeps
  /\ pc' = "returned"
  /\ UNCHANGED <<residue_charge_runs,
                 pdbqt, conect, non_protein_atoms, aromatic_rings, charges, err,
                 rings_found, rings_kept, ring_is_flat_calls,
                 get_aromatic_marker_calls>>

NextHelix ==
  \/ CallProcessAlphaHelices
  \/ CallProcessBetaSheets

SpecHelix == InitHelix /\ [][NextHelix]_vars

\* The sweeps of the loop that clears label, in order.
SweepsOf(label) == SelectSeq(sweep_trace, LAMBDA w : w.label = label)

\* The loop that clears label has returned.
LoopReturned(label) ==
  IF label = "ALPHA" THEN pc \in {"process_beta_sheets", "returned"}
                     ELSE pc = "returned"

\* C15: process_alpha_helices and process_beta_sheets terminate: every sweep
\* that sets change to True has changed at least one alpha-carbon of CA_list
\* from ALPHA (resp. BETA) to OTHER, so the sweeps number at most the ALPHA
\* (resp. BETA) alpha-carbons the loop started with, plus one; the last sweep
\* leaves change False.
C15_SweepsBounded ==
  \A label \in {"ALPHA", "BETA"} :
    LET ws == SweepsOf(label)
        CA == ToSet(alpha_carbons(all_atoms))
    IN /\ \A k \in DOMAIN ws :
            ws[k].change =>
              \E ca \in CA : ws[k].before[ca] = label /\ ws[k].after[ca] = "OTHER"
       /\ ws # <<>> =>
            Len(ws) <= Cardinality({ca \in CA : ws[1].before[ca] = label}) + 1
       /\ LoopReturned(label) => (ws # <<>> /\ ~ ws[Len(ws)].change)

\* Both loops returned; the first took two sweeps that changed labels and a
\* third that did not.
C15_Witness ==
  /\ pc = "returned"
  /\ Len(SweepsOf("ALPHA")) = 3
  /\ Len(SweepsOf("BETA")) >= 2

\* The alpha-carbon has an ALPHA alpha-carbon of CA_list three residue
\* numbers away and less than 6 units away.
HasHelixPartner(ca) ==
  \E k \in DOMAIN alpha_carbons(all_atoms) :
    LET other == all_atoms[alpha_carbons(all_atoms)[k]] IN
      /\ other.structure = "ALPHA"
      /\ (other.resid = all_atoms[ca].resid + 3 \/ other.resid = all_atoms[ca].resid - 3)
      /\ closer_than_6(other.coordinates, all_atoms[ca].coordinates)

\* Six alpha-carbons in a row in CA_list, from position k, with residue
\* numbers that go up by one.
ConsecutiveWindow(CA_list, k) ==
  /\ k + 5 <= Len(CA_list)
  /\ \A q \in 0..4 :
       all_atoms[CA_list[k + q]].resid + 1 = all_atoms[CA_list[k + q + 1]].resid

\* Inside the window at k, positions from..to are ALPHA and the positions
\* just before and just after are not.
FlankedRun(labels, CA_list, k, from, to) ==
  /\ labels[CA_list[k + from - 2]] # "ALPHA"
  /\ \A q \in from..to : labels[CA_list[k + q - 1]] = "ALPHA"
  /\ labels[CA_list[k + to]] # "ALPHA"

\* C16: when process_alpha_helices returns, the labels are a fixed point of
\* the pass: every ALPHA alpha-carbon of CA_list has another ALPHA
\* alpha-carbon of CA_list 3 residue numbers away and less than 6 units away,
\* no window of 6 consecutive residues holds a run the window step clears, and
\* a second call of process_alpha_helices changes no label.
C16_FixedPointOnReturn ==
  pc = "process_beta_sheets" =>
    LET CA_list == alpha_carbons(all_atoms)
        again == process_alpha_helices(
                   [atoms |-> all_atoms, trace |-> <<>>, change |-> TRUE,
                    sweeps |-> <<>>], CA_list)
    IN /\ \A k \in DOMAIN CA_list :
            all_atoms[CA_list[k]].structure = "ALPHA" => HasHelixPartner(CA_list[k])
       /\ \A k \in DOMAIN CA_list :
            ConsecutiveWindow(CA_list, k) =>
              \A from \in 2..5 : \A to \in from..5 :
                ~ FlankedRun(labels_of(all_atoms), CA_list, k, from, to)
       /\ labels_of(again.atoms) = labels_of(all_atoms)
       /\ again.trace = <<>>

\* The pass cleared some labels and left others, on a chain with a window of
\* 6 consecutive residues.
C16_Witness ==
  /\ pc = "process_beta_sheets"
  /\ ConsecutiveWindow(alpha_carbons(all_atoms), 1)
  /\ Len(SweepsOf("ALPHA")) >= 2
  /\ \E i \in DOMAIN all_atoms : all_atoms[i].structure = "ALPHA"

----------------------------------------------------------------------------
(* The calls of get_aromatic_marker in load_from_files *)

\* A residue with some of its ring atoms, or a ligand with a ring.
InitMarkerCalls ==
  \/ InitAromatic
  \/ \E k \in MinRing..MaxRing, twist \in BOOLEAN, kind \in {"none", "two"},
        e \in {"C", "N"}, tilt \in {0, 16} :
       LET in == RingInput(k, twist, kind, e, 2, tilt)
       IN Fresh(in.pdbqt, in.conect)

SpecMarkerCalls == InitMarkerCalls /\ [][Next]_vars

\* C17: in assign_non_protein_aromatic_rings and in
\* assign_protein_aromatic_rings, get_aromatic_marker is never called with
\* fewer than 3 member indices, and neither method ends with the ValueError
\* of get_aromatic_marker.
C17_NeverFewerThanThree ==
  /\ \A k \in DOMAIN get_aromatic_marker_calls :
       Len(get_aromatic_marker_calls[k]) >= 3
  /\ pc \in {"assign_non_protein_aromatic_rings", "assign_protein_aromatic_rings"}
       => err # "ValueError"

\* A tryptophan with 3 atoms of its small ring, 2 of them all it has of its
\* large ring: get_aromatic_marker was called once, with the 3.
C17_Witness ==
  /\ Returned("assign_protein_aromatic_rings")
  /\ \E i \in DOMAIN all_atoms : all_atoms[i].residue = TRP
  /\ Cardinality({i \in DOMAIN all_atoms : all_atoms[i].atomname \in {"CE2", "CD2"}}) = 2
  /\ Len(get_aromatic_marker_calls) = 1
  /\ Len(get_aromatic_marker_calls[1]) = 3

----------------------------------------------------------------------------
(* The size of the rings the cycle search records *)

\* C18: the cycle search never records a cycle of more than 6 atoms: every
\* list ring_recursive appends to all_rings has at most 6 entries.
C18_AtMostSixRecorded ==
  \A i \in DOMAIN rings_found : Len(rings_found[i]) <= 6

\* What the test len(already_crossed) > 6 does bound: the path so far has at
\* most 6 atoms when the atom reached is added to it.
C18_AtMostSevenRecorded ==
  \A i \in DOMAIN rings_found : Len(rings_found[i]) <= 7

----------------------------------------------------------------------------
(* The order of a ligand ring's atoms *)

\* C19: the list ring_is_flat and get_aromatic_marker receive for a ligand
\* ring, and the member list of the marker made from it, is a list the cycle
\* search recorded: the ring's atoms in the order of a walk around the ring
\* from the atom the search started at.
C19_OrderAsFound ==
  /\ \A i \in DOMAIN ring_is_flat_calls : Contains(rings_found, ring_is_flat_calls[i])
  /\ \A i \in DOMAIN get_aromatic_marker_calls :
       Contains(rings_found, get_aromatic_marker_calls[i])
  /\ (pc = "assign_protein_aromatic_rings" =>
        \A i \in DOMAIN aromatic_rings : Contains(rings_found, aromatic_rings[i].indices))

----------------------------------------------------------------------------
(* The window step of process_alpha_helices *)

\* The alpha-carbons of the ALPHA runs of at most longest residues that have
\* a residue with another label just before and just after them, all inside
\* a window of 6 alpha-carbons with consecutive residue numbers.
InFlankedRun(labels, longest) ==
  LET CA_list == alpha_carbons(all_atoms) IN
  {ca \in ToSet(CA_list) :
     \E k \in DOMAIN CA_list : ConsecutiveWindow(CA_list, k) /\
       \E from \in 2..5 : \E to \in from..5 :
         /\ to - from + 1 <= longest
         /\ FlankedRun(labels, CA_list, k, from, to)
         /\ \E q \in from..to : CA_list[k + q - 1] = ca}

\* The alpha-carbons the window step of a sweep changed.
DemotedByWindowStep(w) ==
  {ca \in ToSet(alpha_carbons(all_atoms)) : w.mid[ca] # w.after[ca]}

\* C20 as stated: the window step of alpha post-processing demotes exactly
\* the ALPHA runs of length 1, 2 or 3 flanked by non-ALPHA residues on both
\* ends inside a window of 6 alpha-carbons with consecutive residue numbers.
C20_RunsUpToThree ==
  \A k \in DOMAIN sweep_trace :
    sweep_trace[k].label = "ALPHA" =>
      DemotedByWindowStep(sweep_trace[k]) = InFlankedRun(sweep_trace[k].mid, 3)

\* C20: the window step of alpha post-processing demotes exactly the ALPHA
\* runs of length 1, 2, 3 or 4 flanked by non-ALPHA residues on both ends
\* inside a window of 6 alpha-carbons with consecutive residue numbers, each
\* to OTHER; no longer run is demoted by this step.
C20_RunsUpToFour ==
  \A k \in DOMAIN sweep_trace :
    sweep_trace[k].label = "ALPHA" =>
      /\ DemotedByWindowStep(sweep_trace[k]) = InFlankedRun(sweep_trace[k].mid, 4)
      /\ \A ca \in DemotedByWindowStep(sweep_trace[k]) :
           sweep_trace[k].mid[ca] = "ALPHA" /\ sweep_trace[k].after[ca] = "OTHER"

\* A window step cleared a run of 4, and a window step of the same call left
\* ALPHA labels standing.
C20_Witness ==
  /\ pc \in {"process_beta_sheets", "returned"}
  /\ \E k \in DOMAIN sweep_trace :
       /\ sweep_trace[k].label = "ALPHA"
       /\ Cardinality(DemotedByWindowStep(sweep_trace[k])) = 4
       /\ \E i \in DOMAIN all_atoms : sweep_trace[k].after[i] = "ALPHA"

----------------------------------------------------------------------------
(* The cycles the search records from one atom *)

Bonded(a) == ToSet(all_atoms[a].indices_of_atoms_connecting)

\* Every bond is listed on both of its atoms, and no atom is bonded to
\* itself.
SymmetricNoSelfBonds ==
  \A a \in DOMAIN all_atoms :
    /\ a \notin Bonded(a)
    /\ \A b \in Bonded(a) : b \in DOMAIN all_atoms /\ a \in Bonded(b)

\* The paths of k pairwise distinct atoms along bonds that begin with a.
RECURSIVE SimplePaths(_, _)
SimplePaths(a, k) ==
  IF k = 1 THEN {<<a>>}
  ELSE UNION {{Append(p, b) : b \in Bonded(p[Len(p)]) \ ToSet(p)} :
                p \in SimplePaths(a, k - 1)}

\* The simple cycles of 3 to 6 atoms through a, as paths beginning with a.
SimpleCycles(a) ==
  {p \in UNION {SimplePaths(a, k) : k \in 3..6} : a \in Bonded(p[Len(p)])}

\* What all_rings_containing_atom(a) recorded.
RecordedFrom(a) == {rings_found[i] : i \in {j \in DOMAIN rings_found : rings_found[j][1] = a}}

\* C21: on a graph with symmetric bonds and no self-bonds, the search from
\* an atom records every simple cycle of 3 to 6 atoms through that atom as a
\* path beginning with it; every recorded path has at least 3 pairwise
\* distinct atoms, begins with the atom searched from and ends at an atom
\* bonded to it; no path of 2 atoms is recorded.
C21_EveryCycleRecorded ==
  (Called("assign_non_protein_aromatic_rings") /\ SymmetricNoSelfBonds) =>
    /\ \A a \in non_protein_atoms : SimpleCycles(a) \subseteq RecordedFrom(a)
    /\ \A i \in DOMAIN rings_found :
         LET p == rings_found[i] IN
           /\ Len(p) >= 3
           /\ Cardinality(ToSet(p)) = Len(p)
           /\ p[1] \in non_protein_atoms
           /\ p[1] \in Bonded(p[Len(p)])

\* The search ran on a ligand in which one atom lies on a cycle of 3 and on
\* a cycle of 6 atoms.
C21_Witness ==
  /\ Called("assign_non_protein_aromatic_rings")
  /\ SymmetricNoSelfBonds
  /\ \E a \in non_protein_atoms :
       /\ \E p \in SimpleCycles(a) : Len(p) = 3
       /\ \E p \in SimpleCycles(a) : Len(p) = 6
       /\ SimpleCycles(a) \subseteq RecordedFrom(a)

----------------------------------------------------------------------------
(* The residue names that get a marker *)

AromaticResnames == {PHE, TYR, HIS, HID, HIE, HIP, TRP}

\* C22: markers of protein residues are produced only for residues whose
\* name is exactly PHE, TYR, HIS, HID, HIE, HIP or TRP: every atom of a
\* marker that get_phenylalanine_aromatics, get_tyrosine_aromatics,
\* get_histidine_aromatics or get_tryptophan_aromatics returned lies in a
\* residue with one of these names.
C22_OnlyAromaticResnames ==
  Returned("assign_protein_aromatic_rings") =>
    \A k \in DOMAIN aromatic_rings :
      aromatic_rings[k] \in ToSet(Concat(ResidueAromatics)) =>
        \A q \in DOMAIN aromatic_rings[k].indices :
          all_atoms[aromatic_rings[k].indices[q]].residue \in AromaticResnames

\* What the test "real_resname in resname" does accept: a name that is a
\* substring of PHE or of TYR, or one of the names listed for histidine and
\* tryptophan.
C22_SubstringsToo ==
  Returned("assign_protein_aromatic_rings") =>
    \A k \in DOMAIN aromatic_rings :
      aromatic_rings[k] \in ToSet(Concat(ResidueAromatics)) =>
        \A q \in DOMAIN aromatic_rings[k].indices :
          LET name == all_atoms[aromatic_rings[k].indices[q]].residue
          IN name \in AromaticResnames \/ IsSubstring(name, PHE) \/ IsSubstring(name, TYR)

----------------------------------------------------------------------------
(* The labels process_beta_sheets returns *)

\* The alpha-carbon has another BETA alpha-carbon of CA_list in its chain,
\* more than 2 residue numbers away and less than 6 units away.
HasSheetPartner(ca) ==
  \E k \in DOMAIN alpha_carbons(all_atoms) :
    LET other == all_atoms[alpha_carbons(all_atoms)[k]] IN
      /\ alpha_carbons(all_atoms)[k] # ca
      /\ other.structure = "BETA"
      /\ other.chain = all_atoms[ca].chain
      /\ (other.resid - all_atoms[ca].resid > 2 \/ all_atoms[ca].resid - other.resid > 2)
      /\ closer_than_6(all_atoms[ca].coordinates, other.coordinates)

\* Four alpha-carbons in a row in CA_list, from position k, with residue
\* numbers that go up by one.
ConsecutiveWindowOfFour(CA_list, k) ==
  /\ k + 3 <= Len(CA_list)
  /\ \A q \in 0..2 :
       all_atoms[CA_list[k + q]].resid + 1 = all_atoms[CA_list[k + q + 1]].resid

\* Inside the window at k, positions from..to are BETA and the positions
\* just before and just after are not.
FlankedSheetRun(CA_list, k, from, to) ==
  /\ all_atoms[CA_list[k + from - 2]].structure # "BETA"
  /\ \A q \in from..to : all_atoms[CA_list[k + q - 1]].structure = "BETA"
  /\ all_atoms[CA_list[k + to]].structure # "BETA"

\* C23: when process_beta_sheets returns, every alpha-carbon of CA_list
\* labelled BETA has another BETA alpha-carbon of CA_list on the same chain,
\* more than 2 residue numbers away and less than 6 units away, and no
\* window of 4 alpha-carbons with consecutive residue numbers holds a BETA
\* run of 1 or 2 residues with another label on both sides.
C23_SheetsFixedPointOnReturn ==
  pc = "returned" =>
    LET CA_list == alpha_carbons(all_atoms)
    IN /\ \A k \in DOMAIN CA_list :
            all_atoms[CA_list[k]].structure = "BETA" => HasSheetPartner(CA_list[k])
       /\ \A k \in DOMAIN CA_list :
            ConsecutiveWindowOfFour(CA_list, k) =>
              \A from \in 2..3 : \A to \in from..3 :
                ~ FlankedSheetRun(CA_list, k, from, to)

\* The loop made a second sweep and left BETA labels, on a chain with a
\* window of 4 consecutive residues.
C23_Witness ==
  /\ pc = "returned"
  /\ ConsecutiveWindowOfFour(alpha_carbons(all_atoms), 1)
  /\ Len(SweepsOf("BETA")) >= 2
  /\ \E i \in DOMAIN all_atoms : all_atoms[i].structure = "BETA"

----------------------------------------------------------------------------
(* The bonds left by a call of load_bonds_from_PDB that raised *)

\* C24: if load_bonds_from_PDB raises ValueError, every atom's bonded-index
\* list is as it was before the call, which load_from_files makes on atoms
\* that have no bonds yet: no bond of an earlier CONECT record remains.
C24_NoBondsAfterValueError ==
  (pc = "load_bonds_from_PDB" /\ err = "ValueError") =>
    \A i \in DOMAIN all_atoms : all_atoms[i].indices_of_atoms_connecting = <<>>

\* The bonds that do remain come from the records before the one that
\* raised: each is a bonded index of a record of the atom.
C24_BondsOfTheFile ==
  (pc = "load_bonds_from_PDB" /\ err = "ValueError") =>
    \A i \in DOMAIN all_atoms :
      \A b \in ToSet(all_atoms[i].indices_of_atoms_connecting) :
        \E k \in DOMAIN conect :
          conect[k].long /\ conect[k].atom_index = i /\ Contains(conect[k].bonded, b)

----------------------------------------------------------------------------
(* The bonds after load_bonds_from_PDB returned *)

\* C25: after load_bonds_from_PDB has returned, no atom's bonded-index list
\* contains the atom's own index, and every index in a bonded-index list is
\* a key of all_atoms.
C25_NoOwnIndexAllResolve ==
  Returned("load_bonds_from_PDB") =>
    \A i \in DOMAIN all_atoms :
      /\ ~ Contains(all_atoms[i].indices_of_atoms_connecting, i)
      /\ \A b \in ToSet(all_atoms[i].indices_of_atoms_connecting) : b \in DOMAIN all_atoms

\* The part the checks of load_bonds_from_PDB do establish.
C25_AllResolve ==
  Returned("load_bonds_from_PDB") =>
    \A i \in DOMAIN all_atoms :
      \A b \in ToSet(all_atoms[i].indices_of_atoms_connecting) : b \in DOMAIN all_atoms

----------------------------------------------------------------------------
(* The two charge methods called any number of times *)

MaxChargeCalls == 3

\* A glutamate, or a lysine and a glutamate, after the ligand.
ChargedResidues ==
  {OneGlutamate,
   <<Line("NZ", LYS, 3, "A", "N", <<2, 4, 1>>, 0, 0)>> \o OneGlutamate}

\* A ligand of one centre atom with its neighbours, oxygens, hydrogens or
\* metal ions, followed by residues.
InitChargeCalls ==
  \E centre \in {"N", "C", "P"}, m \in 2..MaxNeighbours, residues \in ChargedResidues :
    \E elements \in [1..m -> {"O", "H", "ZN"}] :
      LET in == StarInput(centre, elements, "none", 109)
      IN Loaded(in.pdbqt \o residues, in.conect)

\* A caller runs assign_non_protein_charges on the loaded object.
CallAssignNonProteinCharges ==
  /\ Len(pc) < MaxChargeCalls
  /\ charges' = charges \o assign_non_protein_charges(all_atoms, non_protein_atoms)
  /\ pc' = Append(pc, "assign_non_protein_charges")
  /\ UNCHANGED <<residue_charge_runs, sweep_trace,
                 pdbqt, conect, all_atoms, non_protein_atoms, aromatic_rings,
                 err, rings_found, rings_kept, ring_is_flat_calls,
                 get_aromatic_marker_calls, structure_trace>>

\* A caller runs assign_protein_charges on the loaded object.
CallAssignProteinCharges ==
  /\ Len(pc) < MaxChargeCalls
  /\ \E r \in {residue_charge_detection(all_atoms, charges)} :
       /\ charges' = charges \o r
       /\ residue_charge_runs' = Append(residue_charge_runs, r)
  /\ pc' = Append(pc, "assign_protein_charges")
  /\ UNCHANGED <<sweep_trace,
                 pdbqt, conect, all_atoms, non_protein_atoms, aromatic_rings,
                 err, rings_found, rings_kept, ring_is_flat_calls,
                 get_aromatic_marker_calls, structure_trace>>

NextChargeCalls ==
  \/ CallAssignNonProteinCharges
  \/ CallAssignProteinCharges

SpecChargeCalls == InitChargeCalls /\ [][NextChargeCalls]_vars

\* What the families find on the atoms loaded, in the order of the claim.
LigandFamilies ==
  identify_metallic_charges(all_atoms, non_protein_atoms)
  \o identify_nitrogen_group_charges(all_atoms, non_protein_atoms)
  \o identify_carbon_group_charges(all_atoms, non_protein_atoms)
  \o identify_phosphorus_group_charges(all_atoms, non_protein_atoms)
  \o identify_sulfur_group_charges(all_atoms, non_protein_atoms)

ResidueFamilies ==
  LET residues == get_residues(all_atoms)
  IN get_lysine_charges(all_atoms, residues)
     \o get_arginine_charges(all_atoms, residues)
     \o get_histidine_charges(all_atoms, residues)
     \o get_glutamic_acid_charges(all_atoms, residues)
     \o get_aspartic_acid_charges(all_atoms, residues)

\* C26: charges is only appended to and never deduplicated: every call of
\* assign_non_protein_charges or assign_protein_charges leaves the records
\* stored before it in place and appends after them all the records of its
\* families, in the order metal, nitrogen, carbon, phosphorus, sulfur for
\* the ligand and lysine, arginine, histidine, glutamate, aspartate for the
\* residues, whether or not charges already holds an equal record.
C26_AppendOnly ==
  [][/\ Len(pc') = Len(pc) + 1
     /\ charges' = charges \o (IF pc'[Len(pc')] = "assign_non_protein_charges"
                                 THEN LigandFamilies ELSE ResidueFamilies)]_vars

\* Three calls were made, the ligand method twice: a record is stored
\* twice, and a metal ion is in the record of its own rule and in the record
\* of the nitrogen it is bonded to.
C26_Witness ==
  /\ Len(pc) = 3
  /\ Cardinality({k \in DOMAIN pc : pc[k] = "assign_non_protein_charges"}) = 2
  /\ \E k1 \in DOMAIN charges, k2 \in DOMAIN charges :
       k1 < k2 /\ charges[k1] = charges[k2]
  /\ \E i \in non_protein_atoms : \E k1 \in DOMAIN charges, k2 \in DOMAIN charges :
       /\ charges[k1] # charges[k2]
       /\ Contains(charges[k1].indices, i)
       /\ Contains(charges[k2].indices, i)
  /\ \E k \in DOMAIN charges : ~ charges[k].positive

----------------------------------------------------------------------------
(* What the clean-up loops write *)

\* Between the two labellings, a label changed only from the label given to
\* OTHER.
OnlyDemoted(from, to, label) ==
  \A i \in DOMAIN from : to[i] # from[i] => (from[i] = label /\ to[i] = "OTHER")

\* C27: the clean-up only demotes: in every sweep of process_alpha_helices
\* a label changes only from ALPHA to OTHER, in every sweep of
\* process_beta_sheets only from BETA to OTHER, every other label is left as
\* it was, and no call of set_structure_of_residue in the loops writes ALPHA
\* or BETA.
C27_OnlyDemotes ==
  /\ \A k \in DOMAIN sweep_trace :
       LET w == sweep_trace[k] IN
         /\ OnlyDemoted(w.before, w.mid, w.label)
         /\ OnlyDemoted(w.mid, w.after, w.label)
         /\ w.before = IF k = 1 THEN structure_trace[1] ELSE sweep_trace[k - 1].after
  /\ (pc = "returned" /\ sweep_trace # <<>>) =>
       labels_of(all_atoms) = sweep_trace[Len(sweep_trace)].after
  /\ \A t \in DOMAIN structure_trace : t > 1 =>
       \A i \in DOMAIN structure_trace[t] :
         structure_trace[t][i] # structure_trace[t - 1][i] =>
           structure_trace[t][i] = "OTHER"

\* Both loops returned; the first cleared ALPHA labels next to BETA labels
\* that it left, the second cleared BETA labels next to ALPHA labels that it
\* left.
C27_Witness ==
  /\ pc = "returned"
  /\ \E k \in DOMAIN sweep_trace :
       /\ sweep_trace[k].label = "ALPHA"
       /\ sweep_trace[k].before # sweep_trace[k].after
       /\ \E i \in DOMAIN all_atoms : sweep_trace[k].after[i] = "ALPHA"
       /\ \E i \in DOMAIN all_atoms : sweep_trace[k].before[i] = "BETA"
  /\ \E k \in DOMAIN sweep_trace :
       /\ sweep_trace[k].label = "BETA"
       /\ sweep_trace[k].before # sweep_trace[k].after
       /\ \E i \in DOMAIN all_atoms : sweep_trace[k].after[i] = "ALPHA"
       /\ \E i \in DOMAIN all_atoms : sweep_trace[k].after[i] = "BETA"

----------------------------------------------------------------------------
(* The two clean-up loops in the other order *)

\* The atoms with the labels the loops started from.
AtomsAsLabelled ==
  [i \in DOMAIN all_atoms |-> [all_atoms[i] EXCEPT !.structure = structure_trace[1][i]]]

\* process_beta_sheets, then process_alpha_helices, on the atoms as they
\* were labelled.
SheetsThenHelices ==
  LET CA_list == alpha_carbons(all_atoms) IN
  CHOOSE result \in
    {process_alpha_helices([sheets EXCEPT !.change = TRUE], CA_list) :
       sheets \in {process_beta_sheets(
                     [atoms |-> AtomsAsLabelled, trace |-> <<>>, change |-> TRUE,
                      sweeps |-> <<>>], CA_list)}} : TRUE

\* C28: process_alpha_helices and process_beta_sheets commute: the labels
\* left by process_alpha_helices followed by process_beta_sheets are the
\* labels process_beta_sheets followed by process_alpha_helices leaves on
\* the same atoms.
C28_LoopsCommute ==
  pc = "returned" => labels_of(SheetsThenHelices.atoms) = labels_of(all_atoms)

\* A chain that began with ALPHA and BETA labels; each loop cleared some of
\* its labels.
C28_Witness ==
  /\ pc = "returned"
  /\ \E i \in DOMAIN all_atoms : structure_trace[1][i] = "ALPHA"
  /\ \E i \in DOMAIN all_atoms : structure_trace[1][i] = "BETA"
  /\ \E k \in DOMAIN sweep_trace : sweep_trace[k].label = "ALPHA" /\ sweep_trace[k].change
  /\ \E k \in DOMAIN sweep_trace : sweep_trace[k].label = "BETA" /\ sweep_trace[k].change
  /\ \E i \in DOMAIN all_atoms : all_atoms[i].structure # "OTHER"

----------------------------------------------------------------------------
(* The label a residue gets from the windows *)

\* The backbone atoms in load order.
Backbone ==
  SelectSeq([i \in 1..Len(all_atoms) |-> i],
            LAMBDA i : side_chain_or_backbone(all_atoms[i]) = "BACKBONE")

\* The window of 8 backbone atoms that ends with backbone atom e.
WindowEndingAt(e) == SubSeq(Backbone, e - 7, e)

\* The atom of the window with the residue number and name given, or 0.
AtomNamed(w, resid, name) == named_in_window(all_atoms, w, resid, name, 0)

\* What the dihedral tests say of the window that ends at e: its two
\* residues are ALPHA, are BETA, or neither ("none"; also when the window is
\* not 4 atoms of one residue and 4 of the next one).
WindowClass(e) ==
  LET w == WindowEndingAt(e)
      resid1 == all_atoms[w[1]].resid
      resid2 == all_atoms[w[8]].resid
      first_N == AtomNamed(w, resid1, "N")
      first_CA == AtomNamed(w, resid1, "CA")
      first_C == AtomNamed(w, resid1, "C")
      second_N == AtomNamed(w, resid2, "N")
      second_CA == AtomNamed(w, resid2, "CA")
      second_C == AtomNamed(w, resid2, "C")
  IN IF ~ window_matches(all_atoms, w) THEN "none"
     ELSE IF 0 \in {first_N, first_CA, first_C, second_N, second_CA, second_C}
       THEN "none"
     ELSE LET phi == dihedral(all_atoms, first_C, second_N, second_CA, second_C)
              psi == dihedral(all_atoms, first_N, first_CA, first_C, second_N)
          IN IF is_beta_dihedral(phi, psi) THEN "BETA"
             ELSE IF is_alpha_dihedral(phi, psi) THEN "ALPHA" ELSE "none"

\* The windows, from the one ending at backbone atom from on, that hold
\* the residue with the key given and matched the ALPHA or the BETA test.
MatchingWindows(key, from) ==
  {e \in from..Len(Backbone) :
     /\ WindowClass(e) # "none"
     /\ key \in {structure_key(all_atoms[WindowEndingAt(e)[1]]),
                 structure_key(all_atoms[WindowEndingAt(e)[8]])}}

\* Every atom carries the label of the last matching window of its residue,
\* or OTHER when there is none; the windows are those ending at backbone
\* atom from or later.
LabelOfLastWindow(from) ==
  \A i \in DOMAIN all_atoms :
    LET es == MatchingWindows(structure_key(all_atoms[i]), from)
    IN structure_trace[1][i] =
         IF es = {} THEN "OTHER"
         ELSE WindowClass(CHOOSE e \in es : \A f \in es : f <= e)

\* C29: the label get_structure_dict gives a residue is the label of the
\* last window of 8 backbone atoms, in load order, that holds the residue
\* and matched the ALPHA or the BETA test, whatever an earlier window gave
\* and whatever windows that matched neither test came after; a residue in
\* no matching window is OTHER.
C29_LabelOfLastMatchingWindow ==
  structure_trace # <<>> => LabelOfLastWindow(8)

\* Every residue has backbone atoms named N, CA and C.
BackboneNamesPresent ==
  \A i \in DOMAIN Backbone : \A name \in {"N", "CA", "C"} :
    \E j \in DOMAIN Backbone :
      /\ structure_key(all_atoms[Backbone[j]]) = structure_key(all_atoms[Backbone[i]])
      /\ all_atoms[Backbone[j]].atomname = name

\* The same of the windows get_structure_dict does test (the first 8
\* backbone atoms are never tested as a window), when no residue lacks one
\* of the atoms the angles are measured at.
C29_LabelOfLastTestedWindow ==
  (structure_trace # <<>> /\ BackboneNamesPresent) => LabelOfLastWindow(9)

\* The claim read of the tested windows only.
C29_TestedWindowsAnyResidue ==
  structure_trace # <<>> => LabelOfLastWindow(9)

----------------------------------------------------------------------------
(* The two dihedral tests on one window *)

\* Angles in degrees on the bounds of the two tests, next to them, and
\* between them.
DihedralGrid ==
  {-180, -179, -166, -165, -164, -146, -145, -144, -100, -71, -70, -69,
   -41, -40, -39, -36, -35, -34, 0, 49, 50, 51, 70, 89, 90, 91, 179, 180}

\* Three residues; the window of residues 2 and 3 is the one window
\* get_structure_dict tests, and phi and psi are measured in residue 3.
InitDihedral ==
  \E phi \in DihedralGrid, psi \in DihedralGrid :
    LET in == ChainInput("plain", << <<0, 0>>, <<0, 0>>, <<phi, psi>> >>)
    IN Fresh(in.pdbqt, in.conect)

SpecDihedral == InitDihedral /\ [][Next]_vars

\* phi and psi of the window that ends at backbone atom e.
WindowPhi(e) ==
  LET w == WindowEndingAt(e)
  IN dihedral(all_atoms, AtomNamed(w, all_atoms[w[1]].resid, "C"),
              AtomNamed(w, all_atoms[w[8]].resid, "N"),
              AtomNamed(w, all_atoms[w[8]].resid, "CA"),
              AtomNamed(w, all_atoms[w[8]].resid, "C"))

WindowPsi(e) ==
  LET w == WindowEndingAt(e)
  IN dihedral(all_atoms, AtomNamed(w, all_atoms[w[1]].resid, "N"),
              AtomNamed(w, all_atoms[w[1]].resid, "CA"),
              AtomNamed(w, all_atoms[w[1]].resid, "C"),
              AtomNamed(w, all_atoms[w[8]].resid, "N"))

\* The windows get_structure_dict tests and finds to be 4 atoms of one
\* residue and 4 of the next.
TestedWindows ==
  {e \in 9..Len(Backbone) : window_matches(all_atoms, WindowEndingAt(e))}

\* C30: the ALPHA and the BETA test of get_structure_dict exclude each
\* other: of no window do phi and psi, both in [-180, 180], pass both
\* tests, so the evaluation of a window makes at most one of the two label
\* assignments, and the label it gives says which.
C30_TestsExclusive ==
  structure_trace # <<>> =>
    \A e \in TestedWindows :
      LET phi == WindowPhi(e)
          psi == WindowPsi(e)
          given == structure_trace[1][WindowEndingAt(e)[8]]
      IN /\ ~ (is_alpha_dihedral(phi, psi) /\ is_beta_dihedral(phi, psi))
         /\ given = "ALPHA" <=> is_alpha_dihedral(phi, psi)
         /\ given = "BETA" <=> is_beta_dihedral(phi, psi)

\* A window was labelled BETA whose phi also lies between the phi bounds of
\* the ALPHA test.
C30_Witness ==
  /\ structure_trace # <<>>
  /\ \E e \in TestedWindows :
       /\ WindowPhi(e) > -145 /\ WindowPhi(e) < -40
       /\ structure_trace[1][WindowEndingAt(e)[8]] = "BETA"

====
